---- MODULE Spec2Model ----
(***************************************************************************)
(* Layer-archive builder of Crane-Jib-Tool (pkg/layer, pkg/tarutil).       *)
(*                                                                         *)
(* Strings are sequences of one-character strings, so that the glob        *)
(* matcher, the scanners of fmt.Sscanf and the path rewriting are          *)
(* computed character by character, as the Go code computes them.          *)
(* Instants are records of seconds and milliseconds since the Unix epoch.   *)
(***************************************************************************)
EXTENDS Integers, Sequences, FiniteSets, TLC

VARIABLES
    cfgIn,       \* the configuration as the caller passed it
    cfg,         \* *config.Config (its Layers): ProcessLayers mutates Properties
    rootTmpDir,  \* output directory handed to ProcessLayers (path segments)
    pc,          \* position inside ProcessLayers
    li,          \* index of the layer being built (range loop, line 287)
    fi,          \* index of the mapping being processed (range loop, line 305)
    walkQ,       \* paths filepath.Walk has still to visit, in visiting order
    disk,        \* archive files on disk: path -> sequence of tar entries
    dstOpen,     \* paths of archive output files that are open
    srcOpen,     \* paths of source files that are open
    layerPaths,  \* layerPaths slice (line 272)
    ret,         \* what ProcessLayers returned: [paths, err]
    call         \* one call of a pure function: its arguments and its result

vars == <<cfgIn, cfg, rootTmpDir, pc, li, fi, walkQ, disk, dstOpen, srcOpen,
          layerPaths, ret, call>>

progVars == <<cfgIn, cfg, rootTmpDir, pc, li, fi, walkQ, disk, dstOpen, srcOpen,
              layerPaths, ret>>

(***************************************************************************)
(* Strings                                                                 *)
(***************************************************************************)
EmptyStr == <<>>

Digits == {"0", "1", "2", "3", "4", "5", "6", "7", "8", "9"}

OctalDigits == {"0", "1", "2", "3", "4", "5", "6", "7"}

DigitVal(c) ==
    CASE c = "0" -> 0 [] c = "1" -> 1 [] c = "2" -> 2 [] c = "3" -> 3
      [] c = "4" -> 4 [] c = "5" -> 5 [] c = "6" -> 6 [] c = "7" -> 7
      [] c = "8" -> 8 [] c = "9" -> 9

\* strings.ReplaceAll(s, old, new) for one-character old and new
ReplaceAll(s, old, new) ==
    [k \in 1..Len(s) |-> IF s[k] = old THEN new ELSE s[k]]

\* strings.HasSuffix(s, "/")
HasSuffixSlash(s) == Len(s) > 0 /\ s[Len(s)] = "/"

RECURSIVE JoinSegs(_)
\* path segments joined by the separator
JoinSegs(segs) ==
    IF Len(segs) = 0 THEN EmptyStr
    ELSE IF Len(segs) = 1 THEN segs[1]
    ELSE segs[1] \o <<"/">> \o JoinSegs(Tail(segs))

(***************************************************************************)
(* Pattern Matcher: matchesPattern, layer.go 126-171                       *)
(***************************************************************************)
RECURSIVE GlobToRegex(_, _)
\* the loop of lines 140-163: the text written to regexPattern
GlobToRegex(pattern, i) ==
    IF i > Len(pattern) THEN EmptyStr
    ELSE IF pattern[i] = "*"
         THEN IF i + 1 <= Len(pattern) /\ pattern[i + 1] = "*"
              THEN <<".", "*">> \o GlobToRegex(pattern, i + 2)
              ELSE <<"[", "^", "/", "]", "*">> \o GlobToRegex(pattern, i + 1)
    ELSE IF pattern[i] = "?"
         THEN <<".">> \o GlobToRegex(pattern, i + 1)
    ELSE IF pattern[i] = "."
         THEN <<"\\", ".">> \o GlobToRegex(pattern, i + 1)
    ELSE <<pattern[i]>> \o GlobToRegex(pattern, i + 1)

(***************************************************************************)
(* regexp.MatchString of the Go library, for the expressions matchesPattern *)
(* can write: literals, the escape \. , the dot, bracket classes with       *)
(* negation, groups, alternation, the anchors, and the repetitions * and +. *)
(* A question mark never reaches the expression and a backslash only in     *)
(* front of a dot.  A brace that starts no counted repetition is a literal; *)
(* counted repetitions, ranges and named classes inside brackets need       *)
(* digits, '-' or ':' and are not interpreted here.                         *)
(***************************************************************************)
ParseError == [ok |-> FALSE, node |-> [t |-> "none"], pos |-> 0]

RepeatOps == {"*", "+"}

RECURSIVE ClassEnd(_, _, _)
\* position of the bracket that closes a class whose members start at k;
\* 0 when it is missing.  A closing bracket right at the start is a member
ClassEnd(re, k, first) ==
    IF k > Len(re) THEN 0
    ELSE IF re[k] = "]" /\ ~first THEN k
    ELSE IF re[k] = "\\" THEN ClassEnd(re, k + 2, FALSE)
    ELSE ClassEnd(re, k + 1, FALSE)

\* a bracket class at position i
ParseClass(re, i) ==
    LET neg   == i + 1 <= Len(re) /\ re[i + 1] = "^"
        from  == IF neg THEN i + 2 ELSE i + 1
        close == ClassEnd(re, from, TRUE)
    IN  IF close = 0 THEN ParseError
        ELSE [ok   |-> TRUE,
              node |-> [t |-> "class", neg |-> neg,
                        set |-> {re[k] : k \in from..(close - 1)} \ {"\\"}],
              pos  |-> close + 1]

RECURSIVE Parse(_, _, _, _)
\* the parser of regexp/syntax from position i on; what is the level:
\*   "alt"    alternation, the operator of lowest precedence
\*   "concat" atoms in a row, up to a bar, a closing parenthesis or the end
\*            (acc holds the ones read)
\*   "repeat" an atom with at most one repetition operator: a second one in
\*            a row is "invalid nested repetition operator"
\*   "atom"   one atom; a repetition operator here has nothing to repeat
Parse(what, re, i, acc) ==
    CASE what = "alt" ->
             LET c == Parse("concat", re, i, <<>>)
             IN  IF ~c.ok THEN c
                 ELSE IF c.pos <= Len(re) /\ re[c.pos] = "|"
                      THEN LET r == Parse("alt", re, c.pos + 1, <<>>)
                           IN  IF ~r.ok THEN r
                               ELSE [ok |-> TRUE, pos |-> r.pos,
                                     node |-> [t |-> "alt", l |-> c.node, r |-> r.node]]
                 ELSE c
      [] what = "concat" ->
             IF i > Len(re) \/ re[i] \in {"|", ")"}
             THEN [ok |-> TRUE, node |-> [t |-> "cat", xs |-> acc], pos |-> i]
             ELSE LET a == Parse("repeat", re, i, <<>>)
                  IN  IF ~a.ok THEN a
                      ELSE Parse("concat", re, a.pos, Append(acc, a.node))
      [] what = "repeat" ->
             LET a == Parse("atom", re, i, <<>>)
             IN  IF ~a.ok THEN a
                 ELSE IF a.pos <= Len(re) /\ re[a.pos] \in RepeatOps
                      THEN IF a.pos + 1 <= Len(re) /\ re[a.pos + 1] \in RepeatOps
                           THEN ParseError
                           ELSE [ok |-> TRUE, pos |-> a.pos + 1,
                                 node |-> [t |-> IF re[a.pos] = "*" THEN "star"
                                                 ELSE "plus",
                                           x |-> a.node]]
                 ELSE a
      [] what = "atom" ->
             CASE re[i] = "(" ->
                      LET r == Parse("alt", re, i + 1, <<>>)
                      IN  IF r.ok /\ r.pos <= Len(re) /\ re[r.pos] = ")"
                          THEN [r EXCEPT !.pos = r.pos + 1]
                          ELSE ParseError
               [] re[i] = "[" -> ParseClass(re, i)
               [] re[i] = "^" -> [ok |-> TRUE, node |-> [t |-> "bol"], pos |-> i + 1]
               [] re[i] = "$" -> [ok |-> TRUE, node |-> [t |-> "eol"], pos |-> i + 1]
               [] re[i] = "." -> [ok |-> TRUE, node |-> [t |-> "any"], pos |-> i + 1]
               [] re[i] = "\\" ->
                      IF i + 1 <= Len(re)
                      THEN [ok |-> TRUE, node |-> [t |-> "lit", c |-> re[i + 1]],
                            pos |-> i + 2]
                      ELSE ParseError
               [] re[i] \in RepeatOps -> ParseError
               [] OTHER -> [ok |-> TRUE, node |-> [t |-> "lit", c |-> re[i]],
                            pos |-> i + 1]

\* regexp.Compile: the whole text has to be consumed (a closing parenthesis
\* left over is an error)
Compile(re) ==
    LET r == Parse("alt", re, 1, <<>>)
    IN  IF r.ok /\ r.pos = Len(re) + 1 THEN r ELSE ParseError

RECURSIVE Ends(_, _, _, _, _)
\* the positions at which a match that starts at a position of from can end:
\*   "node"   a match of node
\*   "cat"    matches of node.xs[k], node.xs[k+1], ... in a row
\*   "repeat" zero or more matches of node in a row
Ends(what, node, s, from, k) ==
    CASE what = "cat" ->
             IF k > Len(node.xs) \/ from = {} THEN from
             ELSE Ends("cat", node, s, Ends("node", node.xs[k], s, from, 1), k + 1)
      [] what = "repeat" ->
             LET more == from \cup Ends("node", node, s, from, 1)
             IN  IF more = from THEN from ELSE Ends("repeat", node, s, more, 1)
      [] what = "node" ->
             CASE node.t = "lit" ->
                      {j + 1 : j \in {i \in from : i <= Len(s) /\ s[i] = node.c}}
               [] node.t = "any" ->   \* the dot matches no line feed (flag s is off)
                      {j + 1 : j \in {i \in from : i <= Len(s) /\ s[i] # "\n"}}
               [] node.t = "class" ->
                      {j + 1 : j \in {i \in from :
                                  i <= Len(s) /\ ((s[i] \in node.set) # node.neg)}}
               [] node.t = "bol" -> from \cap {1}
               [] node.t = "eol" -> from \cap {Len(s) + 1}
               [] node.t = "cat" -> Ends("cat", node, s, from, 1)
               [] node.t = "alt" ->
                      Ends("node", node.l, s, from, 1) \cup Ends("node", node.r, s, from, 1)
               [] node.t = "star" -> Ends("repeat", node.x, s, from, 1)
               [] node.t = "plus" ->
                      Ends("repeat", node.x, s, Ends("node", node.x, s, from, 1), 1)

\* regexp.MatchString(re, s): some substring of s matches; an expression
\* that does not compile matches nothing (the error is dropped, line 169)
MatchString(re, s) ==
    LET r == Compile(re)
    IN  r.ok /\ Ends("node", r.node, s, 1..(Len(s) + 1), 1) # {}

matchesPattern(filePath, pattern) ==
    IF filePath = pattern THEN TRUE
    ELSE LET f == ReplaceAll(filePath, "\\", "/")
             p == ReplaceAll(pattern, "\\", "/")
         IN  MatchString(<<"^">> \o GlobToRegex(p, 1) \o <<"$">>, f)

(***************************************************************************)
(* Inclusion Decision: ShouldIncludeFile, layer.go 174-199                 *)
(***************************************************************************)
\* a plausible slip: the include list consulted before the exclude list
ShouldIncludeFile_IncludeFirst(filePath, excludes, includes) ==
    IF Len(excludes) = 0 /\ Len(includes) = 0 THEN TRUE
    ELSE IF \E k \in 1..Len(includes) : matchesPattern(filePath, includes[k])
         THEN TRUE
    ELSE IF \E k \in 1..Len(excludes) : matchesPattern(filePath, excludes[k])
         THEN FALSE
    ELSE Len(includes) = 0

ShouldIncludeFile(filePath, excludes, includes) ==
    IF Len(excludes) = 0 /\ Len(includes) = 0 THEN TRUE
    ELSE IF \E k \in 1..Len(excludes) : matchesPattern(filePath, excludes[k])
         THEN FALSE
    ELSE IF Len(includes) > 0
         THEN \E k \in 1..Len(includes) : matchesPattern(filePath, includes[k])
    ELSE TRUE

(***************************************************************************)
(* Property Resolver: MergeProperties, layer.go 18-39                      *)
(***************************************************************************)
NoProps ==
    [FilePermissions |-> EmptyStr, DirectoryPermissions |-> EmptyStr,
     User |-> EmptyStr, Group |-> EmptyStr, Timestamp |-> EmptyStr]

\* a plausible slip: the group copied from the user field
MergeProperties_GroupFromUser(global, local) ==
    LET r1 == IF local.FilePermissions # EmptyStr
              THEN [global EXCEPT !.FilePermissions = local.FilePermissions]
              ELSE global
        r2 == IF local.DirectoryPermissions # EmptyStr
              THEN [r1 EXCEPT !.DirectoryPermissions = local.DirectoryPermissions]
              ELSE r1
        r3 == IF local.User # EmptyStr
              THEN [r2 EXCEPT !.User = local.User] ELSE r2
        r4 == IF local.Group # EmptyStr
              THEN [r3 EXCEPT !.Group = local.User] ELSE r3
    IN  IF local.Timestamp # EmptyStr
        THEN [r4 EXCEPT !.Timestamp = local.Timestamp] ELSE r4

MergeProperties(global, local) ==
    LET r1 == IF local.FilePermissions # EmptyStr
              THEN [global EXCEPT !.FilePermissions = local.FilePermissions]
              ELSE global
        r2 == IF local.DirectoryPermissions # EmptyStr
              THEN [r1 EXCEPT !.DirectoryPermissions = local.DirectoryPermissions]
              ELSE r1
        r3 == IF local.User # EmptyStr
              THEN [r2 EXCEPT !.User = local.User] ELSE r2
        r4 == IF local.Group # EmptyStr
              THEN [r3 EXCEPT !.Group = local.Group] ELSE r3
    IN  IF local.Timestamp # EmptyStr
        THEN [r4 EXCEPT !.Timestamp = local.Timestamp] ELSE r4

(***************************************************************************)
(* fmt.Sscanf(s, "%d" / "%o", &v): blanks in front are skipped, then an     *)
(* optional sign, then the longest run of digits of the base; at least one *)
(* digit is required; whatever follows the digits is left unread and is no *)
(* error.                                                                  *)
(***************************************************************************)
RECURSIVE DigitRun(_, _, _)
\* number of characters of s from position i on that are in digits
DigitRun(s, i, digits) ==
    IF i <= Len(s) /\ s[i] \in digits THEN 1 + DigitRun(s, i + 1, digits) ELSE 0

RECURSIVE DigitsValue(_, _, _, _)
\* value in the given base of the n digits of s that start at position i
DigitsValue(s, i, n, base) ==
    IF n = 0 THEN 0
    ELSE DigitsValue(s, i, n - 1, base) * base + DigitVal(s[i + n - 1])

RECURSIVE SkipSpace(_, _)
\* the first position from i on that holds no blank or tab
SkipSpace(s, i) ==
    IF i <= Len(s) /\ s[i] \in {" ", "\t"} THEN SkipSpace(s, i + 1) ELSE i

Sscanf(s, digits, base) ==
    LET start  == SkipSpace(s, 1)
        signed == start <= Len(s) /\ s[start] \in {"+", "-"}
        from   == IF signed THEN start + 1 ELSE start
        n      == DigitRun(s, from, digits)
        v      == DigitsValue(s, from, n, base)
    IN  IF n = 0 THEN [ok |-> FALSE, val |-> 0]
        ELSE [ok |-> TRUE, val |-> IF signed /\ s[start] = "-" THEN 0 - v ELSE v]

SscanfDecimal(s) == Sscanf(s, Digits, 10)

SscanfOctal(s) == Sscanf(s, OctalDigits, 8)

(***************************************************************************)
(* Instants: [s |-> seconds since the epoch, ms |-> milliseconds 0..999]   *)
(***************************************************************************)
\* time.Unix(0, ms*1000000), layer.go 522
UnixMilli(ms) == [s |-> ms \div 1000, ms |-> ms % 1000]

IsLeap(y) == (y % 4 = 0 /\ y % 100 # 0) \/ y % 400 = 0

DaysIn(y, m) ==
    IF m = 2 THEN (IF IsLeap(y) THEN 29 ELSE 28)
    ELSE IF m \in {4, 6, 9, 11} THEN 30 ELSE 31

\* days from 1970-01-01 to the civil date y-m-d
DaysFromCivil(y, m, d) ==
    LET yy  == IF m <= 2 THEN y - 1 ELSE y
        era == yy \div 400
        yoe == yy - era * 400
        mp  == (m + 9) % 12
        doy == (153 * mp + 2) \div 5 + d - 1
        doe == yoe * 365 + yoe \div 4 - yoe \div 100 + doy
    IN  era * 146097 + doe - 719468

\* the k digits of s at position i, as a number; -1 when one is no digit
FixedDigits(s, i, k) ==
    IF i + k - 1 <= Len(s) /\ \A j \in i..(i + k - 1) : s[j] \in Digits
    THEN DigitsValue(s, i, k, 10) ELSE 0 - 1

\* time.Parse(time.RFC3339, s) for strings without fractional seconds:
\* YYYY-MM-DDTHH:MM:SS followed by Z or by +hh:mm / -hh:mm
ParseRFC3339(s) ==
    LET y  == FixedDigits(s, 1, 4)
        mo == FixedDigits(s, 6, 2)
        d  == FixedDigits(s, 9, 2)
        h  == FixedDigits(s, 12, 2)
        mi == FixedDigits(s, 15, 2)
        se == FixedDigits(s, 18, 2)
        zulu == Len(s) = 20 /\ s[20] = "Z"
        oh == FixedDigits(s, 21, 2)
        om == FixedDigits(s, 24, 2)
        offs == /\ Len(s) = 25 /\ s[20] \in {"+", "-"} /\ s[23] = ":"
                /\ oh >= 0 /\ oh < 24 /\ om >= 0 /\ om < 60
        shape == /\ Len(s) >= 20
                 /\ s[5] = "-" /\ s[8] = "-" /\ s[11] = "T"
                 /\ s[14] = ":" /\ s[17] = ":"
                 /\ y >= 0 /\ mo >= 1 /\ mo <= 12 /\ d >= 1
                 /\ h >= 0 /\ h < 24 /\ mi >= 0 /\ mi < 60 /\ se >= 0 /\ se < 60
        off == IF zulu THEN 0
               ELSE (IF s[20] = "-" THEN 0 - 1 ELSE 1) * (oh * 3600 + om * 60)
    IN  IF shape /\ d <= DaysIn(y, mo) /\ (zulu \/ offs)
        THEN [ok |-> TRUE,
              t  |-> [s  |-> DaysFromCivil(y, mo, d) * 86400
                             + h * 3600 + mi * 60 + se - off,
                      ms |-> 0]]
        ELSE [ok |-> FALSE, t |-> [s |-> 0, ms |-> 0]]

(***************************************************************************)
(* Timestamp Parser: ParseCreationTime, layer.go 72-105.  The int64 the     *)
(* scanner yields is kept as its sign and its decimal digits.               *)
(***************************************************************************)
\* the number fmt.Sscanf(str, "%d", &ms) reads: its sign and its digits
ScanDecimal(s) ==
    LET start  == SkipSpace(s, 1)
        signed == start <= Len(s) /\ s[start] \in {"+", "-"}
        from   == IF signed THEN start + 1 ELSE start
        n      == DigitRun(s, from, Digits)
    IN  [ok |-> n > 0, neg |-> signed /\ s[start] = "-",
         digits |-> SubSeq(s, from, from + n - 1)]

RECURSIVE StripZeros(_)
\* the digits without leading zeros; one digit at least is left
StripZeros(d) ==
    IF Len(d) > 1 /\ d[1] = "0" THEN StripZeros(Tail(d)) ELSE d

RECURSIVE DigitsLE(_, _)
\* a <= b for digit strings of the same length
DigitsLE(a, b) ==
    IF Len(a) = 0 THEN TRUE
    ELSE IF a[1] = b[1] THEN DigitsLE(Tail(a), Tail(b))
    ELSE DigitVal(a[1]) < DigitVal(b[1])

MaxInt64 ==
    <<"9", "2", "2", "3", "3", "7", "2", "0", "3", "6", "8", "5", "4", "7", "7",
      "5", "8", "0", "7">>

MinInt64 == [MaxInt64 EXCEPT ![19] = "8"]

\* strconv.ParseInt(tok, 10, 64) reports no range error
FitsInt64(neg, d) ==
    LET c == StripZeros(d)
    IN  \/ Len(c) < Len(MaxInt64)
        \/ Len(c) = Len(MaxInt64) /\ DigitsLE(c, IF neg THEN MinInt64 ELSE MaxInt64)

\* fmt.Sprintf("%d", ms)
FormatInt(neg, d) ==
    LET c == StripZeros(d)
    IN  IF neg /\ c # <<"0">> THEN <<"-">> \o c ELSE c

\* time.Unix(0, ms*1000000) for a count of at most 9223372036854, whose
\* nanoseconds fit 64 bits (MulMillion below is the product for every count)
InstantOfMillis(neg, d) ==
    LET c    == StripZeros(d)
        head == IF Len(c) > 3 THEN DigitsValue(c, 1, Len(c) - 3, 10) ELSE 0
        tail == IF Len(c) > 3 THEN DigitsValue(c, Len(c) - 2, 3, 10)
                ELSE DigitsValue(c, 1, Len(c), 10)
    IN  IF ~neg THEN [s |-> head, ms |-> tail]
        ELSE IF tail = 0 THEN [s |-> 0 - head, ms |-> 0]
        ELSE [s |-> 0 - head - 1, ms |-> 1000 - tail]

\* time.Parse of a layout made of the date 2006-01-02 and, when withTime,
\* a separator and the time 15:04:05, with nothing else (UTC is assumed);
\* input without fractional seconds
ParseCivil(s, withTime, sep) ==
    LET y  == FixedDigits(s, 1, 4)
        mo == FixedDigits(s, 6, 2)
        d  == FixedDigits(s, 9, 2)
        h  == IF withTime THEN FixedDigits(s, 12, 2) ELSE 0
        mi == IF withTime THEN FixedDigits(s, 15, 2) ELSE 0
        se == IF withTime THEN FixedDigits(s, 18, 2) ELSE 0
        shape == /\ Len(s) = IF withTime THEN 19 ELSE 10
                 /\ s[5] = "-" /\ s[8] = "-"
                 /\ withTime => (s[11] = sep /\ s[14] = ":" /\ s[17] = ":")
                 /\ y >= 0 /\ mo >= 1 /\ mo <= 12 /\ d >= 1
                 /\ h >= 0 /\ h < 24 /\ mi >= 0 /\ mi < 60 /\ se >= 0 /\ se < 60
    IN  IF shape /\ d <= DaysIn(y, mo)
        THEN [ok |-> TRUE,
              t  |-> [s  |-> DaysFromCivil(y, mo, d) * 86400 + h * 3600 + mi * 60 + se,
                      ms |-> 0]]
        ELSE [ok |-> FALSE, t |-> [s |-> 0, ms |-> 0]]

\* the layout "2006-01-02T15:04:05Z": the time followed by the letter Z
ParseCivilZ(s) ==
    IF Len(s) = 20 /\ s[20] = "Z" THEN ParseCivil(SubSeq(s, 1, 19), TRUE, "T")
    ELSE [ok |-> FALSE, t |-> [s |-> 0, ms |-> 0]]

\* lines 84-101: the results of the layouts, in the order they are tried
Layouts(s) ==
    <<ParseRFC3339(s), ParseRFC3339(s), ParseCivilZ(s), ParseCivil(s, TRUE, " "),
      ParseCivil(s, FALSE, " "), ParseCivil(s, TRUE, "T")>>

ParseCreationTime(creationTimeStr, now) ==
    LET ms       == ScanDecimal(creationTimeStr)
        scanned  == ms.ok /\ FitsInt64(ms.neg, ms.digits)
        tries    == Layouts(creationTimeStr)
        parsed   == {k \in 1..Len(tries) : tries[k].ok}
        first    == CHOOSE k \in parsed : \A j \in parsed : k <= j
    IN  IF scanned /\ FormatInt(ms.neg, ms.digits) = creationTimeStr
        THEN [t |-> InstantOfMillis(ms.neg, ms.digits), err |-> FALSE]
        ELSE IF parsed # {} THEN [t |-> tries[first].t, err |-> FALSE]
        ELSE [t |-> now, err |-> TRUE]

(***************************************************************************)
(* Archive Writer: the header addFileToTarWithPath writes, layer.go 445-553 *)
(***************************************************************************)
DefaultDirMode == 493    \* 0755

DefaultFileMode == 420   \* 0644

\* a plausible slip: the mode of the source kept whatever is configured
headerMode_Preserve(info, opt) == info.mode

\* lines 466-500 (PreservePermissions is false on the layer path, line 316)
headerMode(info, opt) ==
    IF opt.PreservePermissions THEN info.mode
    ELSE IF info.isDir
         THEN IF opt.DirectoryPermissions # EmptyStr
              THEN LET r == SscanfOctal(opt.DirectoryPermissions)
                   IN  IF r.ok THEN r.val ELSE DefaultDirMode
              ELSE DefaultDirMode
    ELSE IF opt.FilePermissions # EmptyStr
         THEN LET r == SscanfOctal(opt.FilePermissions)
              IN  IF r.ok THEN r.val ELSE DefaultFileMode
    ELSE DefaultFileMode

\* lines 502-514: tar.FileInfoHeader has put the on-disk id into the header
headerOwner(str, onDisk) ==
    IF str # EmptyStr
    THEN LET r == SscanfDecimal(str) IN IF r.ok THEN r.val ELSE onDisk
    ELSE onDisk

\* lines 516-535: modification, access and change time of the header
headerTimes(info, opt) ==
    LET fromInfo == [mod |-> info.modTime, acc |-> info.accTime, chg |-> info.chgTime]
    IN  IF opt.Timestamp # EmptyStr
        THEN LET r == SscanfDecimal(opt.Timestamp)
             IN  IF r.ok
                 THEN [mod |-> UnixMilli(r.val), acc |-> UnixMilli(r.val),
                       chg |-> UnixMilli(r.val)]
                 ELSE LET p == ParseRFC3339(opt.Timestamp)
                      IN  IF p.ok THEN [mod |-> p.t, acc |-> p.t, chg |-> p.t]
                          ELSE fromInfo
        ELSE fromInfo

\* the number fmt.Sscanf(str, "%o", &fileMode) reads: its sign and its digits
ScanOctal(s) ==
    LET start  == SkipSpace(s, 1)
        signed == start <= Len(s) /\ s[start] \in {"+", "-"}
        from   == IF signed THEN start + 1 ELSE start
        n      == DigitRun(s, from, OctalDigits)
    IN  [ok |-> n > 0, neg |-> signed /\ s[start] = "-",
         digits |-> SubSeq(s, from, from + n - 1)]

\* 2^56 in octal: the first mode the eight bytes of the mode field cannot hold
ModeLimit == <<"4">> \o [k \in 1..18 |-> "0"]

\* w.WriteHeader(header), line 537: archive/tar writes a mode of 21 bits in
\* octal and a larger one in base 256, for which the field of eight bytes
\* leaves 56 bits and a sign; the mode has no PAX record, so a header with a
\* mode outside -2^56 .. 2^56 - 1 is refused ("cannot encode header").  User,
\* group and times outside their fields go to PAX records and are accepted.
\* (A string of more than 21 octal digits does not fit the int64 of line 469
\* and is no input of this model.)
WriteHeaderOk(info, opt) ==
    LET str == IF info.isDir THEN opt.DirectoryPermissions ELSE opt.FilePermissions
        r   == ScanOctal(str)
        c   == StripZeros(r.digits)
    IN  \/ opt.PreservePermissions
        \/ str = EmptyStr
        \/ ~r.ok
        \/ Len(c) < Len(ModeLimit)
        \/ Len(c) = Len(ModeLimit) /\ c # ModeLimit /\ DigitsLE(c, ModeLimit)
        \/ r.neg /\ c = ModeLimit

\* the tar header of one entry (lines 457-535)
Header(src, tarPath, info, opt) ==
    LET tm == headerTimes(info, opt)
    IN  [Name       |-> tarPath,
         src        |-> src,
         isDir      |-> info.isDir,
         Mode       |-> headerMode(info, opt),
         Uid        |-> headerOwner(opt.User, info.uid),
         Gid        |-> headerOwner(opt.Group, info.gid),
         ModTime    |-> tm.mod,
         AccessTime |-> tm.acc,
         ChangeTime |-> tm.chg,
         opt        |-> opt,
         info       |-> info,
         full       |-> info.isDir]

(***************************************************************************)
(* Path Resolver: filepath.Join / Clean and the rewriting of lines 364-371  *)
(***************************************************************************)
RECURSIVE SplitSlash(_, _, _)
\* the segments of s between separators, from position i on; acc is the
\* segment being read
SplitSlash(s, i, acc) ==
    IF i > Len(s) THEN <<acc>>
    ELSE IF s[i] = "/" THEN <<acc>> \o SplitSlash(s, i + 1, EmptyStr)
    ELSE SplitSlash(s, i + 1, Append(acc, s[i]))

\* filepath.Clean for paths without ".." elements: empty and "." elements
\* go, a rooted path stays rooted, and the empty result is "."
Clean(s) ==
    LET segs == SelectSeq(SplitSlash(s, 1, EmptyStr),
                          LAMBDA g : g # EmptyStr /\ g # <<".">>)
        body == JoinSegs(segs)
    IN  IF Len(s) > 0 /\ s[1] = "/" THEN <<"/">> \o body
        ELSE IF body = EmptyStr THEN <<".">> ELSE body

\* filepath.Join(a, b): empty elements are ignored, the result is cleaned
Join(a, b) ==
    IF a = EmptyStr /\ b = EmptyStr THEN EmptyStr
    ELSE IF a = EmptyStr THEN Clean(b)
    ELSE IF b = EmptyStr THEN Clean(a)
    ELSE Clean(a \o <<"/">> \o b)

ToUpper(c) ==
    CASE c = "a" -> "A" [] c = "b" -> "B" [] c = "c" -> "C" [] c = "d" -> "D"
      [] c = "e" -> "E" [] OTHER -> c

\* lines 364-371 and 405-412: slashes, then the drive prefix
toTarPath(path) ==
    LET p1 == path      \* filepath.ToSlash: the separator is already '/'
        p2 == IF Len(p1) > 1 /\ p1[2] = ":"
              THEN <<"/", ToUpper(p1[1])>> \o SubSeq(p1, 3, Len(p1))
              ELSE p1
    IN  ReplaceAll(p2, "\\", "/")

\* lines 328-331
destPrefix(dest) ==
    IF HasSuffixSlash(dest) THEN SubSeq(dest, 1, Len(dest) - 1) ELSE dest

\* lines 355-371: entry name of a descendant of a directory mapping
dirTarPath(dest, relPath) ==
    toTarPath(IF relPath = <<".">> THEN destPrefix(dest)
              ELSE Join(destPrefix(dest), relPath))

\* lines 396-412: entry name of a file mapping
fileTarPath(dest, base) ==
    toTarPath(IF HasSuffixSlash(dest) THEN Join(dest, base) ELSE dest)

(***************************************************************************)
(* The file system the build runs on                                       *)
(***************************************************************************)
nApp == <<"a", "p", "p">>

nOut == <<"o", "u", "t">>

nSub == <<"s", "u", "b">>

nRun == <<"r", "u", "n", ".", "s", "h">>

nNope == <<"n", "o", "p", "e">>

nA == <<"a", ".", "t", "x", "t">>

nB == <<"b", ".", "m", "d">>

nC == <<"c", ".", "t", "x", "t">>

nD == <<"d", ".", "m", "d">>

dotTar == <<".", "t", "a", "r">>

\* directories and files that exist before the build; a path is its segments
SourceDirs == {<<nApp>>, <<nApp, nSub>>, <<nOut>>}

SourceFiles == {<<nApp, nA>>, <<nApp, nB>>, <<nApp, nSub, nC>>,
                <<nApp, nSub, nD>>, <<nRun>>}

\* os.FileInfo of the sources: nobody's defaults, so that a header field that
\* leaks from the disk is seen
DirInfo ==
    [isDir |-> TRUE, mode |-> 448, uid |-> 501, gid |-> 20,
     modTime |-> [s |-> 1600000000, ms |-> 0],
     accTime |-> [s |-> 1600000001, ms |-> 0],
     chgTime |-> [s |-> 1600000002, ms |-> 0]]

FileInfo ==
    [isDir |-> FALSE, mode |-> 384, uid |-> 501, gid |-> 20,
     modTime |-> [s |-> 1500000000, ms |-> 0],
     accTime |-> [s |-> 1500000001, ms |-> 0],
     chgTime |-> [s |-> 1500000002, ms |-> 0]]

\* os.Stat / os.Lstat of a path that exists (an archive on disk is a file)
Stat(path) == IF path \in SourceDirs THEN DirInfo ELSE FileInfo

Exists(path, d) == path \in SourceDirs \cup SourceFiles \cup DOMAIN d

Alphabet ==
    <<".", "/", "0", "1", "2", "3", "4", "5", "6", "7", "8", "9", ":",
      "a", "b", "c", "d", "e", "f", "g", "h", "i", "j", "k", "l", "m",
      "n", "o", "p", "q", "r", "s", "t", "u", "v", "w", "x", "y", "z">>

Ord(c) == CHOOSE k \in 1..Len(Alphabet) : Alphabet[k] = c

RECURSIVE StrLess(_, _)
\* byte-wise order of two names, the order of sort.Strings
StrLess(a, b) ==
    IF Len(b) = 0 THEN FALSE
    ELSE IF Len(a) = 0 THEN TRUE
    ELSE IF a[1] = b[1] THEN StrLess(Tail(a), Tail(b))
    ELSE Ord(a[1]) < Ord(b[1])

RECURSIVE SortNames_Descending(_)
\* a plausible slip: the names of a directory in descending order
SortNames_Descending(S) ==
    IF S = {} THEN <<>>
    ELSE LET m == CHOOSE x \in S : \A y \in S \ {x} : StrLess(y, x)
         IN  <<m>> \o SortNames_Descending(S \ {m})

RECURSIVE SortNames(_)
\* sort.Strings of the names filepath.Walk reads from a directory
SortNames(S) ==
    IF S = {} THEN <<>>
    ELSE LET m == CHOOSE x \in S : \A y \in S \ {x} : StrLess(x, y)
         IN  <<m>> \o SortNames(S \ {m})

\* readDirNames of filepath.Walk: the sorted names in a directory, the
\* archives that are on disk in it included
readDirNames(dir, d) ==
    LET all == SourceDirs \cup SourceFiles \cup DOMAIN d
    IN  SortNames({q[Len(q)] : q \in {n \in all :
                      Len(n) = Len(dir) + 1 /\ SubSeq(n, 1, Len(dir)) = dir}})

\* filepath.Rel(root, path) for a path at or below root
Rel(root, path) ==
    IF path = root THEN <<".">>
    ELSE JoinSegs(SubSeq(path, Len(root) + 1, Len(path)))

\* a plausible slip: the whole source path where its base name is meant
Base_WholePath(path) == JoinSegs(path)

\* filepath.Base
Base(path) == path[Len(path)]

\* line 292: filepath.Join(rootTmpDir, name + ".tar")
layerTarPath(root, name) == Append(root, name \o dotTar)

(***************************************************************************)
(* Configurations the build is run on (config.LayerConfig, layer.go 681-710) *)
(***************************************************************************)
MaxLayers == 3

\* layer names are unique within a build; the k-th layer gets the k-th name
LayerNames == << <<"x">>, <<"y">>, <<"z">>, <<"w">> >>

PropsTest ==   \* every field set, each to a well-formed value
    [FilePermissions |-> <<"6", "4", "4">>, DirectoryPermissions |-> <<"7", "5", "5">>,
     User |-> <<"1", "0", "0", "0">>, Group |-> <<"2", "0", "0", "0">>,
     Timestamp |-> <<"1", "0", "0", "0">>]

PropsLoose ==  \* strings only a prefix of which is a number
    [FilePermissions |-> <<"7", "9">>, DirectoryPermissions |-> <<"7", "x">>,
     User |-> <<"r", "o", "o", "t">>, Group |-> EmptyStr,
     Timestamp |-> <<"2", "0", "2", "0", "-", "0", "1", "-", "0", "1", "T",
                     "0", "0", ":", "0", "0", ":", "0", "0", "Z">>]

PropsExec ==
    [NoProps EXCEPT !.FilePermissions = <<"7", "5", "5">>]

PropsJunk ==   \* strings no prefix of which is a number
    [NoProps EXCEPT !.FilePermissions = <<"r", "w", "x">>,
                    !.Timestamp = <<"b", "a", "d">>]

PropsZone ==   \* a signed millisecond count
    [NoProps EXCEPT !.DirectoryPermissions = <<"7", "0", "0">>,
                    !.Timestamp = <<"+", "5">>]

GlobalCatalog == {NoProps, PropsTest}

pTxt == <<"*", ".", "t", "x", "t">>

pDeepTxt == <<"*", "*", "/", "*", ".", "t", "x", "t">>

pMd == <<"*", ".", "m", "d">>

pTar == <<"*", ".", "t", "a", "r">>

pSh == <<"*", ".", "s", "h">>

mAll ==
    [Src |-> <<nApp>>, Dest |-> <<"/", "o", "p", "t", "/">>,
     Excludes |-> <<>>, Includes |-> <<>>, Properties |-> NoProps]

mTxt ==        \* the filters of TestCopyDirWithFilter
    [Src |-> <<nApp>>, Dest |-> <<"/", "o", "p", "t">>,
     Excludes |-> <<pMd>>, Includes |-> <<pTxt, pDeepTxt>>, Properties |-> PropsJunk]

mNoTar ==
    [Src |-> <<nApp>>, Dest |-> <<"/", "d", "a", "t", "a">>,
     Excludes |-> <<pTar, pMd>>, Includes |-> <<>>, Properties |-> PropsLoose]

mRun ==
    [Src |-> <<nRun>>, Dest |-> <<"/", "h", "o", "m", "e", "/", "r", "u", "n", ".", "s", "h">>,
     Excludes |-> <<>>, Includes |-> <<>>, Properties |-> PropsExec]

mRunDir ==
    [Src |-> <<nRun>>, Dest |-> <<"/", "b", "i", "n", "/">>,
     Excludes |-> <<pMd>>, Includes |-> <<>>, Properties |-> PropsZone]

mSkip ==
    [Src |-> <<nRun>>, Dest |-> <<"/", "x">>,
     Excludes |-> <<pSh>>, Includes |-> <<>>, Properties |-> NoProps]

mNope ==
    [Src |-> <<nNope>>, Dest |-> <<"/", "n">>,
     Excludes |-> <<>>, Includes |-> <<>>, Properties |-> NoProps]

PropsHuge ==   \* an octal number of 57 bits as the mode of files
    [NoProps EXCEPT !.FilePermissions = ModeLimit]

mHuge == [mRun EXCEPT !.Properties = PropsHuge]

mAllBare ==    \* the names of mAll once more, with properties of its own
    [mAll EXCEPT !.Dest = <<"/", "o", "p", "t">>, !.Properties = PropsZone]

LayerCatalog ==
    {[Properties |-> NoProps,    Files |-> <<mRun, mNoTar>>],
     [Properties |-> NoProps,    Files |-> <<mTxt>>],
     [Properties |-> PropsLoose, Files |-> <<mAll>>],
     [Properties |-> PropsJunk,  Files |-> <<mSkip, mRunDir, mNoTar>>],
     [Properties |-> PropsTest,  Files |-> <<mRunDir, mNope>>],
     [Properties |-> NoProps,    Files |-> <<mAllBare, mAll>>]}

RootDirs == {<<nOut>>, <<nApp>>}

Configs ==
    UNION {{[Properties |-> g,
             Entries |-> [k \in 1..n |->
                 [Name |-> LayerNames[k], Properties |-> ch[k].Properties,
                  Files |-> ch[k].Files]]] :
              ch \in [1..n -> LayerCatalog], g \in GlobalCatalog} : n \in 0..MaxLayers}

\* mappings that differ in the form of the destination
pAppAny == <<"a", "p", "p", "/", "*">>

mDeep ==       \* a file below a directory; the filters fit its base name only
    [Src |-> <<nApp, nA>>, Dest |-> <<"/", "e", "t", "c", "/">>,
     Excludes |-> <<pAppAny>>, Includes |-> <<pTxt>>, Properties |-> NoProps]

mSubBare ==
    [Src |-> <<nApp, nSub>>, Dest |-> <<"/", "s", "r", "v">>,
     Excludes |-> <<pMd>>, Includes |-> <<>>, Properties |-> NoProps]

mSubSlash ==
    [mSubBare EXCEPT !.Dest = <<"/", "s", "r", "v", "/">>]

mSubRoot ==    \* a directory placed at the root of the image
    [mSubBare EXCEPT !.Dest = <<"/">>]

mWin ==
    [Src |-> <<nRun>>, Dest |-> <<"c", ":", "\\", "a", "p", "p", "\\", "x">>,
     Excludes |-> <<>>, Includes |-> <<>>, Properties |-> NoProps]

mWinDir ==
    [mSubBare EXCEPT !.Dest = <<"d", ":", "\\", "d", "a", "t", "a">>]

mColon ==      \* a relative name that starts with two colons
    [Src |-> <<nRun>>, Dest |-> <<":", ":", "x">>,
     Excludes |-> <<>>, Includes |-> <<>>, Properties |-> NoProps]

DestLayerCatalog ==
    {[Properties |-> NoProps,   Files |-> <<mRun>>],
     [Properties |-> PropsTest, Files |-> <<mRunDir>>],
     [Properties |-> NoProps,   Files |-> <<mDeep, mSkip, mRun>>],
     [Properties |-> NoProps,   Files |-> <<mSubBare, mSubSlash>>],
     [Properties |-> NoProps,   Files |-> <<mSubRoot>>],
     [Properties |-> NoProps,   Files |-> <<mWin, mWinDir>>],
     [Properties |-> NoProps,   Files |-> <<mColon>>],
     [Properties |-> NoProps,   Files |-> <<mSkip>>],
     [Properties |-> PropsLoose, Files |-> <<mAll, mHuge>>]}

\* builds of one layer
DestConfigs ==
    {[Properties |-> g,
      Entries |-> <<[Name |-> LayerNames[1], Properties |-> l.Properties,
                     Files |-> l.Files]>>] :
        l \in DestLayerCatalog, g \in GlobalCatalog}

(***************************************************************************)
(* Layer Orchestrator: ProcessLayers, layer.go 271-442                     *)
(***************************************************************************)
NoCall == [op |-> "none"]

NoError == ""

NotReturned == [returned |-> FALSE, isNil |-> FALSE, paths |-> <<>>, err |-> NoError]

Init ==
    /\ cfg \in Configs
    /\ cfgIn = cfg
    /\ rootTmpDir \in RootDirs
    /\ pc = "start"
    /\ li = 0
    /\ fi = 0
    /\ walkQ = <<>>
    /\ disk = <<>>
    /\ dstOpen = {}
    /\ srcOpen = {}
    /\ layerPaths = <<>>
    /\ ret = NotReturned
    /\ call = NoCall

layerEntry == cfg.Entries[li]

curTarPath == layerTarPath(rootTmpDir, layerEntry.Name)

file == layerEntry.Files[fi]

\* lines 289, 313-322
RECURSIVE mergedUpTo(_, _)
\* the properties of the layer merged with those of its first k mappings
mergedUpTo(layer, k) ==
    IF k = 0 THEN MergeProperties(cfg.Properties, layer.Properties)
    ELSE MergeProperties(mergedUpTo(layer, k - 1), layer.Files[k].Properties)

\* a plausible slip: line 313 written with = in place of :=, so that the
\* layer's merged properties keep what each mapping put into them
tarOptions_Accumulate(layer, f) ==
    LET mergedProps == mergedUpTo(layer, fi)
    IN  [PreservePermissions  |-> FALSE,
         FilePermissions      |-> mergedProps.FilePermissions,
         DirectoryPermissions |-> mergedProps.DirectoryPermissions,
         User                 |-> mergedProps.User,
         Group                |-> mergedProps.Group,
         Timestamp            |-> mergedProps.Timestamp]

\* lines 287-289 and 313-322
tarOptions(layer, f) ==
    LET mergedProps == MergeProperties(MergeProperties(cfg.Properties, layer.Properties),
                                       f.Properties)
    IN  [PreservePermissions  |-> FALSE,
         FilePermissions      |-> mergedProps.FilePermissions,
         DirectoryPermissions |-> mergedProps.DirectoryPermissions,
         User                 |-> mergedProps.User,
         Group                |-> mergedProps.Group,
         Timestamp            |-> mergedProps.Timestamp]

\* a plausible slip: the whole output directory cleared on failure
Removed_Everything(d, path) == [q \in {} |-> <<>>]

\* os.Remove(path)
Removed(d, path) == [q \in DOMAIN d \ {path} |-> d[q]]

\* w.WriteHeader(header): one more entry in the archive, with the layer and
\* the mapping it was written for
Written(d, path, header) ==
    [d EXCEPT ![path] = Append(@, header @@ [layer |-> li, mapping |-> fi])]

\* a plausible slip: an error branch that returns without os.Remove
Abort_NoRemove(msg) ==
    /\ dstOpen' = dstOpen \ {curTarPath}
    /\ srcOpen' = {}
    /\ pc' = "failed"
    /\ ret' = [returned |-> TRUE, isNil |-> TRUE, paths |-> <<>>, err |-> msg]
    /\ UNCHANGED <<cfgIn, cfg, rootTmpDir, li, fi, walkQ, disk, layerPaths, call>>

\* a plausible slip: an error branch that returns without dstFile.Close()
Abort_LeaveOpen(msg) ==
    /\ disk' = Removed(disk, curTarPath)
    /\ srcOpen' = {}
    /\ pc' = "failed"
    /\ ret' = [returned |-> TRUE, isNil |-> TRUE, paths |-> <<>>, err |-> msg]
    /\ UNCHANGED <<cfgIn, cfg, rootTmpDir, li, fi, walkQ, dstOpen, layerPaths, call>>

\* the error branches of lines 308-312, 381-386, 415-420, 425-435:
\* close what is open, remove the archive of this layer, return nil and error
Abort(msg) ==
    /\ disk' = Removed(disk, curTarPath)
    /\ dstOpen' = dstOpen \ {curTarPath}
    /\ srcOpen' = {}
    /\ pc' = "failed"
    /\ ret' = [returned |-> TRUE, isNil |-> TRUE, paths |-> <<>>, err |-> msg]
    /\ UNCHANGED <<cfgIn, cfg, rootTmpDir, li, fi, walkQ, layerPaths, call>>

\* a plausible slip: the defaults of user and group left out
Begin_NoDefaults ==
    /\ pc = "start"
    /\ IF Len(cfg.Entries) = 0
       THEN /\ pc' = "done"
            /\ ret' = [returned |-> TRUE, isNil |-> FALSE, paths |-> layerPaths,
                       err |-> NoError]
            /\ UNCHANGED li
       ELSE /\ pc' = "create"
            /\ li' = 1
            /\ UNCHANGED ret
    /\ UNCHANGED <<cfgIn, cfg, rootTmpDir, fi, walkQ, disk, dstOpen, srcOpen, layerPaths, call>>

\* lines 272-284
Begin ==
    /\ pc = "start"
    /\ IF Len(cfg.Entries) = 0
       THEN /\ pc' = "done"
            /\ ret' = [returned |-> TRUE, isNil |-> FALSE, paths |-> layerPaths,
                       err |-> NoError]
            /\ UNCHANGED <<cfg, li>>
       ELSE /\ cfg' = [cfg EXCEPT
                 !.Properties.Group = IF @ = EmptyStr THEN <<"0">> ELSE @,
                 !.Properties.User  = IF @ = EmptyStr THEN <<"0">> ELSE @]
            /\ pc' = "create"
            /\ li' = 1
            /\ UNCHANGED ret
    /\ UNCHANGED <<cfgIn, rootTmpDir, fi, walkQ, disk, dstOpen, srcOpen, layerPaths, call>>

\* lines 292-302: os.Create truncates or creates the archive
CreateTar ==
    /\ pc = "create"
    /\ disk' = [q \in DOMAIN disk \cup {curTarPath} |->
                   IF q = curTarPath THEN <<>> ELSE disk[q]]
    /\ dstOpen' = dstOpen \cup {curTarPath}
    /\ fi' = 1
    /\ pc' = "mapping"
    /\ UNCHANGED <<cfgIn, cfg, rootTmpDir, li, walkQ, srcOpen, layerPaths, ret, call>>

\* lines 297-299: os.Create fails; nothing was created
CreateTarFails ==
    /\ pc = "create"
    /\ pc' = "failed"
    /\ ret' = [returned |-> TRUE, isNil |-> TRUE, paths |-> <<>>,
               err |-> "failed to create tar file"]
    /\ UNCHANGED <<cfgIn, cfg, rootTmpDir, li, fi, walkQ, disk, dstOpen, srcOpen,
                   layerPaths, call>>

\* line 305: the range over the mappings is exhausted
FilesDone ==
    /\ pc = "mapping"
    /\ fi > Len(layerEntry.Files)
    /\ pc' = "closew"
    /\ UNCHANGED <<cfgIn, cfg, rootTmpDir, li, fi, walkQ, disk, dstOpen, srcOpen,
                   layerPaths, ret, call>>

\* lines 307-312: os.Stat fails (the source is missing, or an I/O error)
StatFails ==
    /\ pc = "mapping"
    /\ fi <= Len(layerEntry.Files)
    /\ Abort("failed to stat file")

\* lines 325-334: the source is a directory; filepath.Walk starts at it
StartWalk ==
    /\ pc = "mapping"
    /\ fi <= Len(layerEntry.Files)
    /\ Exists(file.Src, disk)
    /\ Stat(file.Src).isDir
    /\ walkQ' = <<file.Src>>
    /\ pc' = "walk"
    /\ UNCHANGED <<cfgIn, cfg, rootTmpDir, li, fi, disk, dstOpen, srcOpen, layerPaths,
                   ret, call>>

\* lines 390-393: a file mapping whose base name is filtered out
SkipFile ==
    /\ pc = "mapping"
    /\ fi <= Len(layerEntry.Files)
    /\ Exists(file.Src, disk)
    /\ ~Stat(file.Src).isDir
    /\ ~ShouldIncludeFile(Base(file.Src), file.Excludes, file.Includes)
    /\ fi' = fi + 1
    /\ UNCHANGED <<cfgIn, cfg, rootTmpDir, pc, li, walkQ, disk, dstOpen, srcOpen,
                   layerPaths, ret, call>>

\* lines 395-415 with 445-540: the source file is opened and its header written
AddFile ==
    /\ pc = "mapping"
    /\ fi <= Len(layerEntry.Files)
    /\ Exists(file.Src, disk)
    /\ ~Stat(file.Src).isDir
    /\ ShouldIncludeFile(Base(file.Src), file.Excludes, file.Includes)
    /\ WriteHeaderOk(Stat(file.Src), tarOptions(layerEntry, file))
    /\ disk' = Written(disk, curTarPath,
                       Header(file.Src, fileTarPath(file.Dest, Base(file.Src)),
                              Stat(file.Src), tarOptions(layerEntry, file)))
    /\ srcOpen' = srcOpen \cup {file.Src}
    /\ pc' = "copy"
    /\ UNCHANGED <<cfgIn, cfg, rootTmpDir, li, fi, walkQ, dstOpen, layerPaths, ret, call>>

\* lines 415-420: os.Open or WriteHeader fails in addFileToTarWithPath
AddFileFails ==
    /\ pc = "mapping"
    /\ fi <= Len(layerEntry.Files)
    /\ Exists(file.Src, disk)
    /\ ~Stat(file.Src).isDir
    /\ ShouldIncludeFile(Base(file.Src), file.Excludes, file.Includes)
    /\ Abort("failed to add file")

\* filepath.Walk has visited everything: the next mapping
WalkDone ==
    /\ pc = "walk"
    /\ walkQ = <<>>
    /\ fi' = fi + 1
    /\ pc' = "mapping"
    /\ UNCHANGED <<cfgIn, cfg, rootTmpDir, li, walkQ, disk, dstOpen, srcOpen, layerPaths,
                   ret, call>>

\* lines 345-352: the visited path is filtered out; a directory is skipped
\* with all that is below it (filepath.SkipDir)
WalkSkip ==
    /\ pc = "walk"
    /\ walkQ # <<>>
    /\ ~ShouldIncludeFile(Rel(file.Src, Head(walkQ)), file.Excludes, file.Includes)
    /\ walkQ' = Tail(walkQ)
    /\ UNCHANGED <<cfgIn, cfg, rootTmpDir, pc, li, fi, disk, dstOpen, srcOpen, layerPaths,
                   ret, call>>

\* lines 354-378 for a directory: its header is written and Walk descends
WalkAddDir ==
    /\ pc = "walk"
    /\ walkQ # <<>>
    /\ LET p == Head(walkQ)
           names == readDirNames(p, disk)
       IN  /\ Stat(p).isDir
           /\ ShouldIncludeFile(Rel(file.Src, p), file.Excludes, file.Includes)
           /\ WriteHeaderOk(Stat(p), tarOptions(layerEntry, file))
           /\ disk' = Written(disk, curTarPath,
                              Header(p, dirTarPath(file.Dest, Rel(file.Src, p)),
                                     Stat(p), tarOptions(layerEntry, file)))
           /\ walkQ' = [k \in 1..Len(names) |-> Append(p, names[k])] \o Tail(walkQ)
    /\ UNCHANGED <<cfgIn, cfg, rootTmpDir, pc, li, fi, dstOpen, srcOpen, layerPaths, ret, call>>

\* lines 354-374 for a file: it is opened and its header written
WalkAddFile ==
    /\ pc = "walk"
    /\ walkQ # <<>>
    /\ LET p == Head(walkQ)
       IN  /\ ~Stat(p).isDir
           /\ ShouldIncludeFile(Rel(file.Src, p), file.Excludes, file.Includes)
           /\ WriteHeaderOk(Stat(p), tarOptions(layerEntry, file))
           /\ disk' = Written(disk, curTarPath,
                              Header(p, dirTarPath(file.Dest, Rel(file.Src, p)),
                                     Stat(p), tarOptions(layerEntry, file)))
           /\ srcOpen' = srcOpen \cup {p}
    /\ walkQ' = Tail(walkQ)
    /\ pc' = "copy"
    /\ UNCHANGED <<cfgIn, cfg, rootTmpDir, li, fi, dstOpen, layerPaths, ret, call>>

\* lines 335-343, 374-376, 381-386: the walk reports an error (lstat or
\* reading a directory), or adding the visited path fails
WalkFails ==
    /\ pc = "walk"
    /\ walkQ # <<>>
    /\ Abort("failed to walk directory")

\* lines 547-552: io.Copy of the source into the archive. A source that is
\* the archive being written grows while it is read, so more bytes arrive
\* than the header announced and the tar writer refuses them
CopyContent ==
    /\ pc = "copy"
    /\ srcOpen \cap dstOpen = {}
    /\ disk' = [disk EXCEPT ![curTarPath] =
                   [@ EXCEPT ![Len(disk[curTarPath])].full = TRUE]]
    /\ srcOpen' = {}
    /\ IF Stat(file.Src).isDir
       THEN pc' = "walk" /\ UNCHANGED fi
       ELSE pc' = "mapping" /\ fi' = fi + 1
    /\ UNCHANGED <<cfgIn, cfg, rootTmpDir, li, walkQ, dstOpen, layerPaths, ret, call>>

\* lines 548-550 with 374-386 and 415-420
CopyFails ==
    /\ pc = "copy"
    /\ Abort(IF Stat(file.Src).isDir THEN "failed to walk directory"
             ELSE "failed to add file")

\* line 425
CloseWriter ==
    /\ pc = "closew"
    /\ pc' = "closef"
    /\ UNCHANGED <<cfgIn, cfg, rootTmpDir, li, fi, walkQ, disk, dstOpen, srcOpen,
                   layerPaths, ret, call>>

\* lines 425-429
CloseWriterFails ==
    /\ pc = "closew"
    /\ Abort("failed to close tar writer")

\* a plausible slip: the path put in front of the list
CloseFile_Prepend ==
    /\ pc = "closef"
    /\ dstOpen' = dstOpen \ {curTarPath}
    /\ layerPaths' = <<curTarPath>> \o layerPaths
    /\ IF li < Len(cfg.Entries)
       THEN /\ li' = li + 1
            /\ pc' = "create"
            /\ UNCHANGED ret
       ELSE /\ pc' = "done"
            /\ ret' = [returned |-> TRUE, isNil |-> FALSE, paths |-> layerPaths',
                       err |-> NoError]
            /\ UNCHANGED li
    /\ UNCHANGED <<cfgIn, cfg, rootTmpDir, fi, walkQ, disk, srcOpen, call>>

\* lines 432-441: the archive is closed and recorded; the next layer, or return
CloseFile ==
    /\ pc = "closef"
    /\ dstOpen' = dstOpen \ {curTarPath}
    /\ layerPaths' = Append(layerPaths, curTarPath)
    /\ IF li < Len(cfg.Entries)
       THEN /\ li' = li + 1
            /\ pc' = "create"
            /\ UNCHANGED ret
       ELSE /\ pc' = "done"
            /\ ret' = [returned |-> TRUE, isNil |-> FALSE, paths |-> layerPaths',
                       err |-> NoError]
            /\ UNCHANGED li
    /\ UNCHANGED <<cfgIn, cfg, rootTmpDir, fi, walkQ, disk, srcOpen, call>>

\* lines 432-435
CloseFileFails ==
    /\ pc = "closef"
    /\ Abort("failed to close tar file")

Next ==
    \/ Begin
    \/ CreateTar
    \/ CreateTarFails
    \/ FilesDone
    \/ StatFails
    \/ StartWalk
    \/ SkipFile
    \/ AddFile
    \/ AddFileFails
    \/ WalkDone
    \/ WalkSkip
    \/ WalkAddDir
    \/ WalkAddFile
    \/ WalkFails
    \/ CopyContent
    \/ CopyFails
    \/ CloseWriter
    \/ CloseWriterFails
    \/ CloseFile
    \/ CloseFileFails

Spec == Init /\ [][Next]_vars

\* ProcessLayers on the builds of DestConfigs, in the output directory "out"
InitDest ==
    /\ cfg \in DestConfigs
    /\ cfgIn = cfg
    /\ rootTmpDir = <<nOut>>
    /\ pc = "start"
    /\ li = 0
    /\ fi = 0
    /\ walkQ = <<>>
    /\ disk = <<>>
    /\ dstOpen = {}
    /\ srcOpen = {}
    /\ layerPaths = <<>>
    /\ ret = NotReturned
    /\ call = NoCall

SpecDest == InitDest /\ [][Next]_vars

(***************************************************************************)
(* Calls of the pure functions on inputs drawn from bounded sets           *)
(***************************************************************************)
EmptyConfig == [Properties |-> NoProps, Entries |-> <<>>]

\* ProcessLayers is not running
Idle ==
    /\ cfgIn = EmptyConfig
    /\ cfg = EmptyConfig
    /\ rootTmpDir = <<nOut>>
    /\ pc = "idle"
    /\ li = 0
    /\ fi = 0
    /\ walkQ = <<>>
    /\ disk = <<>>
    /\ dstOpen = {}
    /\ srcOpen = {}
    /\ layerPaths = <<>>
    /\ ret = NotReturned

pFdot == <<"f", ".", "*">>

nF == <<"f", ".", "t", "x", "t">>

IncludePaths ==
    {<<".">>, nA, nB, nF, nRun, nSub, JoinSegs(<<nSub, nC>>), JoinSegs(<<nSub, nD>>)}

PatternLists ==
    {<<>>, <<pTxt>>, <<pMd>>, <<pFdot>>, <<pTxt, pDeepTxt>>, <<nSub>>, <<pMd, pTar>>}

InitInclude ==
    /\ Idle
    /\ call \in {[op |-> "ShouldIncludeFile", filePath |-> f, excludes |-> e,
                  includes |-> i, done |-> FALSE, result |-> FALSE] :
                     f \in IncludePaths, e \in PatternLists, i \in PatternLists}

CallShouldIncludeFile ==
    /\ call.op = "ShouldIncludeFile"
    /\ ~call.done
    /\ call' = [call EXCEPT !.done = TRUE,
                            !.result = ShouldIncludeFile(call.filePath, call.excludes,
                                                         call.includes)]
    /\ UNCHANGED progVars

NextInclude == CallShouldIncludeFile

SpecInclude == InitInclude /\ [][NextInclude]_vars

PropsLayerScope ==
    [FilePermissions |-> <<"6", "0", "0">>, DirectoryPermissions |-> <<"7", "0", "0">>,
     User |-> <<"1">>, Group |-> <<"2">>, Timestamp |-> <<"2", "0", "0", "0">>]

PropsMappingScope ==
    [FilePermissions |-> <<"7", "5", "5">>, DirectoryPermissions |-> <<"7", "1", "1">>,
     User |-> <<"4", "0", "0", "0">>, Group |-> <<"3", "0", "0", "0">>,
     Timestamp |-> <<"3", "0", "0", "0">>]

\* every choice of set and unset fields, the set ones with the values of v
Subsets(v) ==
    {[FilePermissions |-> a, DirectoryPermissions |-> b, User |-> c, Group |-> d,
      Timestamp |-> e] :
        a \in {EmptyStr, v.FilePermissions}, b \in {EmptyStr, v.DirectoryPermissions},
        c \in {EmptyStr, v.User}, d \in {EmptyStr, v.Group},
        e \in {EmptyStr, v.Timestamp}}

InitMerge ==
    /\ Idle
    /\ call \in {[op |-> "MergeProperties", global |-> g, layer |-> l, mapping |-> m,
                  stage |-> 0, merged1 |-> NoProps, merged2 |-> NoProps] :
                     g \in Subsets(PropsTest), l \in Subsets(PropsLayerScope),
                     m \in Subsets(PropsMappingScope)}

\* line 289: global merged with the layer
MergeLayer ==
    /\ call.op = "MergeProperties"
    /\ call.stage = 0
    /\ call' = [call EXCEPT !.stage = 1,
                            !.merged1 = MergeProperties(call.global, call.layer)]
    /\ UNCHANGED progVars

\* line 313: that result merged with the mapping
MergeMapping ==
    /\ call.op = "MergeProperties"
    /\ call.stage = 1
    /\ call' = [call EXCEPT !.stage = 2,
                            !.merged2 = MergeProperties(call.merged1, call.mapping)]
    /\ UNCHANGED progVars

NextMerge == MergeLayer \/ MergeMapping

SpecMerge == InitMerge /\ [][NextMerge]_vars

MaxPathLen == 3

MaxPatternLen == 2

RECURSIVE Strings(_, _)
\* the strings of at most n characters of A
Strings(A, n) ==
    IF n = 0 THEN {EmptyStr}
    ELSE LET S == Strings(A, n - 1)
         IN  S \cup {Append(t, c) : t \in {u \in S : Len(u) = n - 1}, c \in A}

\* characters of candidates: letters of both cases, both separators, a plus
PathChars == {"a", "A", "/", "\\", "+"}

\* characters of patterns: the wildcards, the dot, the separators, and the
\* characters the pattern language gives no meaning to
PatternChars ==
    {"a", "*", "?", ".", "/", "\\", "+", "|", "(", ")", "[", "]", "^", "$", "!",
     "{", "}"}

nTest == <<"t", "e", "s", "t", ".", "t", "x", "t">>

pTestQ == <<"t", "e", "s", "t", ".", "?", "x", "t">>

pAStar == <<"a", "*">>

\* "test." and "xt" with mid in between
Around(mid) == <<"t", "e", "s", "t", ".">> \o mid \o <<"x", "t">>

\* candidates of TestMatchesPattern and their neighbours: file names below
\* zero to two directories, and one character more or less than "test.txt"
NamedPaths ==
    {pre \o name :
        pre \in {EmptyStr, <<"a", "/">>, <<"a", "/", "b", "/">>, <<"a", "\\", "b", "/">>,
                 <<"d", "i", "r", "/", "s", "u", "b", "d", "i", "r", "/">>,
                 <<"a", "\n", "b", "/">>},
        name \in {nA, nC, nTest, <<"c", ".", "t", "x">>, <<"c", "t", "x", "t">>, nB,
                  <<"a", "b">>}}
    \cup {Around(mid) : mid \in {EmptyStr, <<"t">>, <<"T">>, <<".">>, <<"/">>,
                                 <<"\n">>, <<"t", "t">>}}

pAQB == <<"a", "?", "b">>

pAStarB == <<"a", "*", "b">>

\* patterns of the form **/p
DeepPatterns ==
    {<<"*", "*", "/">> \o q : q \in Strings(PatternChars, MaxPatternLen - 1) \cup {pTxt}}

NamedPatterns ==
    {nTest, pTxt, pDeepTxt, pTestQ, pMd, pAStar, pAQB, pAStarB} \cup DeepPatterns

MatchPaths == Strings(PathChars, MaxPathLen) \cup NamedPaths

MatchPatterns == Strings(PatternChars, MaxPatternLen) \cup NamedPatterns

InitMatch ==
    /\ Idle
    /\ call \in {[op |-> "matchesPattern", filePath |-> f, pattern |-> q,
                  done |-> FALSE, result |-> FALSE] :
                     f \in MatchPaths, q \in MatchPatterns}

CallMatchesPattern ==
    /\ call.op = "matchesPattern"
    /\ ~call.done
    /\ call' = [call EXCEPT !.done = TRUE,
                            !.result = matchesPattern(call.filePath, call.pattern)]
    /\ UNCHANGED progVars

NextMatch == CallMatchesPattern

SpecMatch == InitMatch /\ [][NextMatch]_vars

MaxTimeLen == 3

\* characters of short timestamp strings: digits, signs, a blank, a letter
TimeChars == {"0", "1", "7", "-", "+", " ", "x"}

tsDate == <<"2", "0", "2", "0", "-", "0", "1", "-", "0", "1">>

\* the strings of TestParseCreationTime and of the spec, one string for each
\* layout, and strings that miss a layout by little
NamedTimes ==
    {<<"1", "0", "0", "0">>,
     <<"1", "7", "0", "0", "0", "0", "0", "0", "0", "0", "0", "0", "0">>,
     <<"2", "1", "4", "7", "4", "8", "3", "6", "4", "7", "9", "9", "9">>,
     <<"-", "1", "5", "0", "0">>,
     <<"1", "2", "a", "b">>,
     <<"2", "0", "2", "0", "-", "0", "1", "-", "0", "1">>,
     <<"2", "0", "2", "0", "-", "0", "1", "-", "0", "1", "T", "0", "0", ":", "0", "0", ":", "0", "0", "Z">>,
     <<"2", "0", "2", "0", "-", "0", "1", "-", "0", "1", "T", "0", "0", ":", "0", "0", ":", "0", "0", "+", "0", "8", ":", "0", "0">>,
     <<"2", "0", "2", "0", "-", "0", "1", "-", "0", "1", " ", "0", "0", ":", "0", "0", ":", "0", "0">>,
     <<"2", "0", "2", "0", "-", "0", "1", "-", "0", "1", "T", "0", "0", ":", "0", "0", ":", "0", "0">>,
     <<"2", "0", "2", "4", "-", "0", "2", "-", "2", "9">>,
     <<"2", "0", "2", "3", "-", "0", "2", "-", "2", "9">>,
     <<"2", "0", "2", "0", "-", "1", "3", "-", "0", "1">>,
     <<"2", "0", "2", "0", "-", "0", "1", "-", "0", "1", "T", "2", "4", ":", "0", "0", ":", "0", "0", "Z">>,
     <<"i", "n", "v", "a", "l", "i", "d", "-", "d", "a", "t", "e">>,
     <<"n", "o", "t", "-", "a", "-", "d", "a", "t", "e">>,
     <<"9", "9", "9", "9", "9", "9", "9", "9", "9", "9", "9", "9", "9", "9", "9", "9", "9", "9", "9", "9">>,
     <<"2", "0", "2", "0", "-", "1", "-", "1">>,
     <<"2", "0", "2", "0", "0", "1", "0", "1">>}

TimeStrings == Strings(TimeChars, MaxTimeLen) \cup NamedTimes

\* what time.Now() can return
Clocks == {[s |-> 1800000000, ms |-> 0], [s |-> 1800000001, ms |-> 500]}

InitTime ==
    /\ Idle
    /\ call \in {[op |-> "ParseCreationTime", str |-> x, now |-> n, done |-> FALSE,
                  t |-> [s |-> 0, ms |-> 0], err |-> FALSE] :
                     x \in TimeStrings, n \in Clocks}

CallParseCreationTime ==
    /\ call.op = "ParseCreationTime"
    /\ ~call.done
    /\ LET r == ParseCreationTime(call.str, call.now)
       IN  call' = [call EXCEPT !.done = TRUE, !.t = r.t, !.err = r.err]
    /\ UNCHANGED progVars

NextTime == CallParseCreationTime

SpecTime == InitTime /\ [][NextTime]_vars

(***************************************************************************)
(* tarutil.CreateTar followed by tarutil.ExtractTar, tarutil.go 58-370.     *)
(* The directory tree is a function from the path of a regular file (its    *)
(* segments below srcDir) to the content and the mode bits of the file; the *)
(* archive and the output directory lie outside the tree.                   *)
(***************************************************************************)
\* the regular files a tree can hold
TreeFiles == {<<nA>>, <<nB>>, <<nSub, nC>>, <<nSub, nD>>}

\* the bytes of a file: its name, for two files the same bytes
fileBytes(path) == IF path = <<nSub, nD>> THEN nB ELSE path[Len(path)]

\* the mode bits of a file on disk: 0600, and 0755 for the files in sub
fileModeBits(path) == IF Len(path) > 1 THEN 493 ELSE 384

Trees ==
    {[p \in S |-> [content |-> fileBytes(p), mode |-> fileModeBits(p)]] :
        S \in SUBSET TreeFiles}

\* the directories of a tree: srcDir itself and what lies above a file
dirsOf(tree) ==
    {<<>>} \cup UNION {{SubSeq(p, 1, k) : k \in 0..(Len(p) - 1)} : p \in DOMAIN tree}

\* os.Stat / entry.Info() in a tree
statIn(tree, path) ==
    IF path \in DOMAIN tree THEN [FileInfo EXCEPT !.mode = tree[path].mode]
    ELSE DirInfo

\* os.ReadDir(dirPath): the entries of a directory, sorted by name
ReadDir(tree, dir) ==
    LET below == {q \in DOMAIN tree :
                     Len(q) > Len(dir) /\ SubSeq(q, 1, Len(dir)) = dir}
        names == SortNames({q[Len(dir) + 1] : q \in below})
    IN  [k \in 1..Len(names) |-> Append(dir, names[k])]

\* lines 200-237
tarHeaderMode(info, opt) ==
    IF opt.PreservePermissions THEN info.mode
    ELSE IF opt.FilePermissions # EmptyStr
         THEN LET r == SscanfOctal(opt.FilePermissions)
              IN  IF r.ok THEN r.val ELSE DefaultFileMode
    ELSE DefaultFileMode

\* lines 253-281: the three times of the header
tarHeaderTime(info, opt) ==
    IF opt.Timestamp # EmptyStr
    THEN LET r == SscanfDecimal(opt.Timestamp)
         IN  IF r.ok THEN UnixMilli(r.val)
             ELSE LET q == ParseRFC3339(opt.Timestamp)
                  IN  IF q.ok THEN q.t ELSE info.modTime
    ELSE info.modTime

\* lines 170-299: the entry of one regular file, header and content
addSingleFileToTar(tree, path, opt) ==
    LET info == statIn(tree, path)
    IN  [Name     |-> Rel(<<>>, path),
         Typeflag |-> "TypeReg",
         Mode     |-> tarHeaderMode(info, opt),
         Uid      |-> headerOwner(opt.User, info.uid),
         Gid      |-> headerOwner(opt.Group, info.gid),
         ModTime  |-> tarHeaderTime(info, opt),
         Content  |-> tree[path].content]

\* bit k of the number m
Bit(m, k) == (m \div (2 ^ k)) % 2

\* syscallMode of os.Chmod(destPath, os.FileMode(header.Mode)), line 356:
\* the nine permission bits, and set-uid, set-gid and sticky where the
\* os.FileMode bits of these names (23, 22 and 20) are set
syscallMode(m) ==
    (m % 512) + 2048 * Bit(m, 23) + 1024 * Bit(m, 22) + 512 * Bit(m, 20)

\* lines 338-358: a regular file is created (or truncated), filled and its
\* mode set
ExtractEntry(out, h) ==
    LET name == Clean(h.Name)
    IN  [q \in DOMAIN out \cup {name} |->
            IF q = name THEN [content |-> h.Content, mode |-> syscallMode(h.Mode)]
            ELSE out[q]]

\* the options CreateTar is called with; Files lists paths below srcDir
TarFilesCatalog == {<<>>, << <<>> >>, << <<nSub>> >>, << <<nA>>, <<nNope>> >>}

TarPermissions == {EmptyStr, <<"6", "4", "4">>, <<"7", "5", "5">>, <<"4", "7", "5", "5">>}

TarOptionsCatalog ==
    {[Cwd |-> EmptyStr, Files |-> f, PreservePermissions |-> pp, FilePermissions |-> fp,
      DirectoryPermissions |-> EmptyStr, User |-> pr.User, Group |-> pr.Group,
      Timestamp |-> pr.Timestamp] :
        f \in TarFilesCatalog, pp \in BOOLEAN, fp \in TarPermissions,
        pr \in {NoProps, PropsTest}}

InitTar ==
    /\ Idle
    /\ call \in {[op |-> "CreateTar", tree |-> t, opt |-> o, at |-> "CreateTar",
                  files |-> <<>>, todo |-> <<>>, tar |-> <<>>, next |-> 1,
                  out |-> <<>>, err |-> NoError] :
                     t \in Trees, o \in TarOptionsCatalog}

\* lines 58-92: the archive is created; without Files the whole of srcDir
CreateTarOpen ==
    /\ call.op = "CreateTar"
    /\ call.at = "CreateTar"
    /\ call' = [call EXCEPT !.at = "addFileToTar",
                            !.files = IF Len(call.opt.Files) = 0 THEN << <<>> >>
                                      ELSE call.opt.Files]
    /\ UNCHANGED progVars

\* lines 66-75: os.MkdirAll or os.Create fails
CreateTarOpenFails ==
    /\ call.op = "CreateTar"
    /\ call.at = "CreateTar"
    /\ call' = [call EXCEPT !.at = "failed", !.err = "failed to create tar file"]
    /\ UNCHANGED progVars

\* lines 95-96 and 115-135: the next element of files is looked up
AddFileToTar ==
    /\ call.op = "CreateTar"
    /\ call.at = "addFileToTar"
    /\ call.files # <<>>
    /\ Head(call.files) \in DOMAIN call.tree \cup dirsOf(call.tree)
    /\ call' = [call EXCEPT !.at = "add", !.todo = <<Head(call.files)>>]
    /\ UNCHANGED progVars

\* lines 123-126 and 96-98: os.Stat fails (for a path that is missing, always)
AddFileToTarFails ==
    /\ call.op = "CreateTar"
    /\ call.at = "addFileToTar"
    /\ call.files # <<>>
    /\ call' = [call EXCEPT !.at = "failed", !.err = "failed to add file"]
    /\ UNCHANGED progVars

\* lines 138-167: a directory writes no entry; its entries come next, in the
\* order of os.ReadDir
AddDirectoryToTar ==
    /\ call.op = "CreateTar"
    /\ call.at = "add"
    /\ call.todo # <<>>
    /\ Head(call.todo) \notin DOMAIN call.tree
    /\ call' = [call EXCEPT !.todo = ReadDir(call.tree, Head(call.todo)) \o Tail(@)]
    /\ UNCHANGED progVars

\* lines 170-299
AddSingleFileToTar ==
    /\ call.op = "CreateTar"
    /\ call.at = "add"
    /\ call.todo # <<>>
    /\ Head(call.todo) \in DOMAIN call.tree
    /\ call' = [call EXCEPT
                   !.tar = Append(@, addSingleFileToTar(call.tree, Head(call.todo),
                                                        call.opt)),
                   !.todo = Tail(@)]
    /\ UNCHANGED progVars

\* lines 140-143, 149-152, 172-190, 284-296: reading a directory, opening a
\* file, writing the header or copying the content fails; the archive stays
AddEntryFails ==
    /\ call.op = "CreateTar"
    /\ call.at = "add"
    /\ call.todo # <<>>
    /\ call' = [call EXCEPT !.at = "failed", !.err = "failed to add file"]
    /\ UNCHANGED progVars

\* line 95: the element of files is done
AddFileDone ==
    /\ call.op = "CreateTar"
    /\ call.at = "add"
    /\ call.todo = <<>>
    /\ call' = [call EXCEPT !.at = "addFileToTar", !.files = Tail(@)]
    /\ UNCHANGED progVars

\* lines 101-111
CreateTarClose ==
    /\ call.op = "CreateTar"
    /\ call.at = "addFileToTar"
    /\ call.files = <<>>
    /\ call' = [call EXCEPT !.at = "ExtractTar"]
    /\ UNCHANGED progVars

\* lines 102-109
CreateTarCloseFails ==
    /\ call.op = "CreateTar"
    /\ call.at = "addFileToTar"
    /\ call.files = <<>>
    /\ call' = [call EXCEPT !.at = "failed", !.err = "failed to close tar file"]
    /\ UNCHANGED progVars

\* lines 319-358: the next entry of the archive is extracted
ExtractNext ==
    /\ call.op = "CreateTar"
    /\ call.at = "ExtractTar"
    /\ call.next <= Len(call.tar)
    /\ call' = [call EXCEPT !.out = ExtractEntry(@, call.tar[call.next]),
                            !.next = @ + 1]
    /\ UNCHANGED progVars

\* lines 304-307, 314-316, 324-326, 340-358: opening or reading the archive,
\* or creating, writing or chmod-ing an output file fails
ExtractFails ==
    /\ call.op = "CreateTar"
    /\ call.at = "ExtractTar"
    /\ call' = [call EXCEPT !.at = "failed", !.err = "failed to extract"]
    /\ UNCHANGED progVars

\* lines 321-323 and 369: the end of the archive
ExtractDone ==
    /\ call.op = "CreateTar"
    /\ call.at = "ExtractTar"
    /\ call.next > Len(call.tar)
    /\ call' = [call EXCEPT !.at = "done"]
    /\ UNCHANGED progVars

NextTar ==
    \/ CreateTarOpen
    \/ CreateTarOpenFails
    \/ AddFileToTar
    \/ AddFileToTarFails
    \/ AddDirectoryToTar
    \/ AddSingleFileToTar
    \/ AddEntryFails
    \/ AddFileDone
    \/ CreateTarClose
    \/ CreateTarCloseFails
    \/ ExtractNext
    \/ ExtractFails
    \/ ExtractDone

SpecTar == InitTar /\ [][NextTar]_vars

(***************************************************************************)
(* config.BuildVarPool, layer.go 712-755.  A pool is a function from keys   *)
(* to values; a variable file is what os.ReadFile and yaml.Unmarshal make   *)
(* of it: unreadable, unparseable, or a map of variables.                   *)
(***************************************************************************)
MaxValFiles == 2

kTag == <<"T", "i", "m", "e", "s", "t", "a", "m", "p", "T", "a", "g">>

kApp == <<"A", "P", "P">>

kVer == <<"V", "E", "R">>

RECURSIVE IndexOf(_, _, _)
\* strings.Index from position i on; 0 when c does not occur
IndexOf(s, c, i) ==
    IF i > Len(s) THEN 0
    ELSE IF s[i] = c THEN i ELSE IndexOf(s, c, i + 1)

\* strings.SplitN(env, "=", 2)
SplitN(env) ==
    LET i == IndexOf(env, "=", 1)
    IN  IF i = 0 THEN <<env>>
        ELSE <<SubSeq(env, 1, i - 1), SubSeq(env, i + 1, Len(env))>>

\* a plausible slip: a key the pool has already is left as it is
PutAll_KeepExisting(pool, m) ==
    [k \in DOMAIN pool \cup DOMAIN m |-> IF k \in DOMAIN pool THEN pool[k] ELSE m[k]]

\* for k, v := range m { pool[k] = v }, lines 744-746 and 750-752
PutAll(pool, m) ==
    [k \in DOMAIN pool \cup DOMAIN m |-> IF k \in DOMAIN m THEN m[k] ELSE pool[k]]

RECURSIVE EnvPool(_, _, _)
\* lines 721-726: the entries of os.Environ() from the i-th on, put into pool
EnvPool(environ, i, pool) ==
    IF i > Len(environ) THEN pool
    ELSE LET parts == SplitN(environ[i])
         IN  EnvPool(environ, i + 1,
                     IF Len(parts) = 2 THEN PutAll(pool, parts[1] :> parts[2])
                     ELSE pool)

RECURSIVE FormatNat(_)
\* the verb %d for a natural number
FormatNat(n) ==
    LET d == SubSeq(<<"0", "1", "2", "3", "4", "5", "6", "7", "8", "9">>,
                    (n % 10) + 1, (n % 10) + 1)
    IN  IF n < 10 THEN d ELSE FormatNat(n \div 10) \o d

\* the verb %02d
Pad2(n) == IF n < 10 THEN <<"0">> \o FormatNat(n) ELSE FormatNat(n)

\* lines 716-717
defaultTimestamp(now) ==
    FormatNat(now.Year) \o Pad2(now.Month) \o Pad2(now.Day) \o Pad2(now.Hour)
        \o Pad2(now.Minute) \o Pad2(now.Second)

\* what time.Now() can read, as a date and a time of day
CivilClocks ==
    {[Year |-> 2026, Month |-> 11, Day |-> 3, Hour |-> 9, Minute |-> 5, Second |-> 0],
     [Year |-> 2027, Month |-> 1, Day |-> 12, Hour |-> 23, Minute |-> 59, Second |-> 58]}

\* what os.Environ() can return; an entry without '=' adds nothing
EnvCatalog ==
    {<<>>,
     <<kApp \o <<"=", "e">>, <<"x">>, kVer \o <<"=", "e", "=", "1">> >>,
     <<kTag \o <<"=", "e">>, kApp \o <<"=", "e">>, kApp \o <<"=", "e", "e">> >>}

\* variable files: one that cannot be read, one that is no YAML map of
\* strings, and two that are
FileCatalog ==
    {[kind |-> "unreadable", vars |-> <<>>],
     [kind |-> "unparseable", vars |-> kApp :> <<"b", "a", "d">>],
     [kind |-> "vars", vars |-> (kApp :> <<"f">>) @@ (kTag :> <<"f">>)],
     [kind |-> "vars", vars |-> (kApp :> <<"g">>) @@ (kVer :> <<"g">>)]}

RECURSIVE FileLists(_)
\* the lists of at most n variable files
FileLists(n) ==
    IF n = 0 THEN {<<>>}
    ELSE LET S == FileLists(n - 1)
         IN  S \cup {Append(l, f) : l \in {u \in S : Len(u) = n - 1}, f \in FileCatalog}

\* the key=value pairs of the command line; nil is the empty map
ValsCatalog ==
    {<<>>, kVer :> <<"c">>, (kApp :> <<"c">>) @@ (kTag :> <<"c">>)}

InitPool ==
    /\ Idle
    /\ call \in {[op |-> "BuildVarPool", environ |-> e, now |-> n, valFiles |-> fl,
                  vals |-> v, at |-> "start", k |-> 0, pool |-> <<>>, isNil |-> TRUE] :
                     e \in EnvCatalog, n \in CivilClocks, fl \in FileLists(MaxValFiles),
                     v \in ValsCatalog}

\* lines 715-728: the environment, then the built-in TimestampTag
PoolFromEnvironment ==
    /\ call.op = "BuildVarPool"
    /\ call.at = "start"
    /\ call' = [call EXCEPT
                   !.pool = PutAll(EnvPool(call.environ, 1, <<>>),
                                   kTag :> defaultTimestamp(call.now)),
                   !.isNil = FALSE,
                   !.k = 1,
                   !.at = "files"]
    /\ UNCHANGED progVars

\* lines 731-747: a variable file that is read and parsed
AddVarFile ==
    /\ call.op = "BuildVarPool"
    /\ call.at = "files"
    /\ call.k <= Len(call.valFiles)
    /\ call.valFiles[call.k].kind = "vars"
    /\ call' = [call EXCEPT !.pool = PutAll(@, call.valFiles[call.k].vars),
                            !.k = @ + 1]
    /\ UNCHANGED progVars

\* lines 732-742: os.ReadFile or yaml.Unmarshal fails: a warning, continue
SkipVarFile ==
    /\ call.op = "BuildVarPool"
    /\ call.at = "files"
    /\ call.k <= Len(call.valFiles)
    /\ call.valFiles[call.k].kind # "vars"
    /\ call' = [call EXCEPT !.k = @ + 1]
    /\ UNCHANGED progVars

\* lines 749-754: the command line last, and the pool is returned
AddVals ==
    /\ call.op = "BuildVarPool"
    /\ call.at = "files"
    /\ call.k > Len(call.valFiles)
    /\ call' = [call EXCEPT !.pool = PutAll(@, call.vals), !.at = "done"]
    /\ UNCHANGED progVars

NextPool == PoolFromEnvironment \/ AddVarFile \/ SkipVarFile \/ AddVals

SpecPool == InitPool /\ [][NextPool]_vars

(***************************************************************************)
(* The create command: the creation time of the images, NewCmdCreate       *)
(* lines 278-327.  time.Now() is read at line 278 and again, not earlier,  *)
(* inside ParseCreationTime and at line 284.                               *)
(***************************************************************************)
MaxPlatforms == 2

\* cfg.CreationTime: unset, or one of the timestamp strings
CreationTimes == {EmptyStr} \cup NamedTimes \cup Strings(TimeChars, MaxTimeLen - 1)

InitCreate ==
    /\ Idle
    /\ call \in {[op |-> "create", creationTime |-> x, now |-> c[1], later |-> c[2],
                  platforms |-> k, at |-> "time", createdTime |-> [s |-> 0, ms |-> 0],
                  shown |-> [s |-> 0, ms |-> 0], created |-> <<>>] :
                     x \in CreationTimes,
                     c \in {d \in Clocks \X Clocks : d[2].s >= d[1].s},
                     k \in 1..MaxPlatforms}

\* lines 278-288: createdTime is declared with the current time; the block
\* of the if statement declares a createdTime of its own (:=) for what
\* ParseCreationTime returns, assigns the current time to that one when the
\* string does not parse, and prints it; the block ends and so does that
\* variable
SetCreatedTime ==
    /\ call.op = "create"
    /\ call.at = "time"
    /\ LET r == ParseCreationTime(call.creationTime, call.later)
       IN  call' = [call EXCEPT
               !.createdTime = call.now,
               !.shown = IF call.creationTime = EmptyStr THEN @
                         ELSE IF r.err THEN call.later ELSE r.t,
               !.at = "platform"]
    /\ UNCHANGED progVars

\* lines 295-327: the next platform; the Created field of its image config
\* is set from createdTime
SetImageCreated ==
    /\ call.op = "create"
    /\ call.at = "platform"
    /\ Len(call.created) < call.platforms
    /\ call' = [call EXCEPT !.created = Append(@, call.createdTime)]
    /\ UNCHANGED progVars

\* lines 298-323: parsing the platform, pulling the base image, appending
\* the layers or reading the image config fails
PlatformFails ==
    /\ call.op = "create"
    /\ call.at = "platform"
    /\ Len(call.created) < call.platforms
    /\ call' = [call EXCEPT !.at = "failed"]
    /\ UNCHANGED progVars

\* every platform has its image
PlatformsDone ==
    /\ call.op = "create"
    /\ call.at = "platform"
    /\ Len(call.created) = call.platforms
    /\ call' = [call EXCEPT !.at = "built"]
    /\ UNCHANGED progVars

NextCreate == SetCreatedTime \/ SetImageCreated \/ PlatformFails \/ PlatformsDone

SpecCreate == InitCreate /\ [][NextCreate]_vars

(***************************************************************************)
(* ms*1000000 in int64, layer.go 79 and 522.  A 64-bit integer is its four *)
(* 16-bit limbs, the low one first, negative numbers in two's complement;  *)
(* time.Unix(0, ns) is the instant ns nanoseconds from the epoch.          *)
(***************************************************************************)
MaxMillisLen == 2

RECURSIVE MulSmall(_, _, _)
\* x * m + c for a small m and c, cut to the limbs of x
MulSmall(x, m, c) ==
    IF x = <<>> THEN <<>>
    ELSE LET v == x[1] * m + c
         IN  <<v % 65536>> \o MulSmall(Tail(x), m, v \div 65536)

RECURSIVE FromDigits(_, _)
\* the number of the decimal digits d, in n limbs
FromDigits(d, n) ==
    IF d = <<>> THEN [k \in 1..n |-> 0]
    ELSE MulSmall(FromDigits(SubSeq(d, 1, Len(d) - 1), n), 10, DigitVal(d[Len(d)]))

\* -x
Negate(x) == MulSmall([k \in 1..Len(x) |-> 65535 - x[k]], 1, 1)

\* the integer with the given sign and decimal digits, in n limbs
IntOf(neg, d, n) == IF neg THEN Negate(FromDigits(d, n)) ELSE FromDigits(d, n)

\* x * 1000000 in the width of x: what does not fit is lost
MulMillion(x) == MulSmall(MulSmall(x, 1000, 0), 1000, 0)

\* x in n limbs, with its sign
SignExtend(x, n) ==
    x \o [k \in 1..(n - Len(x)) |-> IF x[Len(x)] >= 32768 THEN 65535 ELSE 0]

\* a < b for signed integers of the same number of limbs
LessInt(a, b) ==
    LET key(x) == [k \in 1..Len(x) |->
                      IF k = Len(x) THEN (x[k] + 32768) % 65536 ELSE x[k]]
    IN  \E k \in 1..Len(a) :
            /\ key(a)[k] < key(b)[k]
            /\ \A j \in (k + 1)..Len(a) : key(a)[j] = key(b)[j]

\* whole-string integers that fit int64: short ones, the ends of the range,
\* and the neighbours of the largest count whose nanoseconds fit
MilliStrings ==
    LET short == Strings({"0", "1", "9"}, MaxMillisLen) \ {EmptyStr}
        named == {<<"1", "0", "0", "0">>,
                  <<"1", "7", "0", "0", "0", "0", "0", "0", "0", "0", "0", "0", "0">>,
                  <<"9", "2", "2", "3", "3", "7", "2", "0", "3", "6", "8", "5", "4">>,
                  <<"9", "2", "2", "3", "3", "7", "2", "0", "3", "6", "8", "5", "5">>,
                  <<"1", "8", "4", "4", "6", "7", "4", "4", "0", "7", "3", "7", "1", "0">>,
                  MaxInt64, MinInt64}
        all   == short \cup named \cup {<<"-">> \o x : x \in short \cup named}
    IN  {x \in all : LET ms == ScanDecimal(x)
                     IN  /\ ms.ok
                         /\ FitsInt64(ms.neg, ms.digits)
                         /\ FormatInt(ms.neg, ms.digits) = x}

InitMillis ==
    /\ Idle
    /\ call \in {[op |-> "UnixMilli", a |-> x, b |-> y, done |-> FALSE,
                  ta |-> <<0, 0, 0, 0>>, tb |-> <<0, 0, 0, 0>>] :
                     x \in MilliStrings, y \in MilliStrings}

\* the nanoseconds time.Unix is given for the string s
nanosOf(s) ==
    LET ms == ScanDecimal(s)
    IN  MulMillion(IntOf(ms.neg, ms.digits, 4))

\* lines 74-79 and 519-522 for two timestamp strings
CallUnixMilli ==
    /\ call.op = "UnixMilli"
    /\ ~call.done
    /\ call' = [call EXCEPT !.done = TRUE, !.ta = nanosOf(call.a), !.tb = nanosOf(call.b)]
    /\ UNCHANGED progVars

NextMillis == CallUnixMilli

SpecMillis == InitMillis /\ [][NextMillis]_vars

(***************************************************************************)
(* Properties                                                              *)
(***************************************************************************)
\* the archive path of the k-th configured layer
pathOf(k) == layerTarPath(rootTmpDir, cfg.Entries[k].Name)

\* the entries of all archives on disk, as <<path, index>> pairs
Slots == UNION {{<<p, k>> : k \in 1..Len(disk[p])} : p \in DOMAIN disk}

\* C1: when ProcessLayers fails while building layer i (after the archive of
\* the layer was created), it has returned a non-nil error and a nil path
\* list, and the archive of layer i is not on disk
C1_FailureRemovesPartialArchive ==
    (pc = "failed" /\ ret.err # "failed to create tar file") =>
        /\ ret.returned
        /\ ret.err # NoError
        /\ ret.isNil
        /\ curTarPath \notin DOMAIN disk

\* a failure in a later mapping of a layer, after earlier mappings were written
C1_Witness ==
    /\ pc = "failed"
    /\ fi > 1
    /\ ret.err = "failed to walk directory"
    /\ curTarPath \notin DOMAIN disk

\* C2: no step changes or removes the archive of a completed layer; when the
\* build has failed in layer i the archives of the layers before i are on
\* disk, closed and completely written; and the archive of a layer after the
\* current one is never on disk
C2_NoRollbackNoLaterLayer ==
    /\ [][\A k \in 1..Len(layerPaths) :
              /\ layerPaths[k] \in DOMAIN disk'
              /\ disk'[layerPaths[k]] = disk[layerPaths[k]]]_vars
    /\ [](pc = "failed" =>
              /\ Len(layerPaths) = li - 1
              /\ \A k \in 1..(li - 1) :
                    /\ layerPaths[k] = pathOf(k)
                    /\ pathOf(k) \in DOMAIN disk
                    /\ pathOf(k) \notin dstOpen
                    /\ \A n \in 1..Len(disk[pathOf(k)]) : disk[pathOf(k)][n].full)
    /\ [](\A j \in (li + 1)..Len(cfg.Entries) : pathOf(j) \notin DOMAIN disk)

\* the second of three layers failed and the first one's archive has entries
C2_Witness ==
    /\ pc = "failed"
    /\ li = 2
    /\ Len(cfg.Entries) > 2
    /\ pathOf(1) \in DOMAIN disk
    /\ Len(disk[pathOf(1)]) > 0
    /\ pathOf(2) \notin DOMAIN disk

\* C3: on success the result is one path per layer, the k-th being the
\* archive path of the k-th layer; each file exists; no archive is open; a
\* build without layers creates no file; and at any moment only the archive
\* of the layer being built can be open
C3_SuccessReturnsOnePathPerLayer ==
    /\ pc = "done" =>
          /\ ret.returned
          /\ ret.err = NoError
          /\ ~ret.isNil
          /\ Len(ret.paths) = Len(cfg.Entries)
          /\ \A k \in 1..Len(cfg.Entries) :
                ret.paths[k] = pathOf(k) /\ pathOf(k) \in DOMAIN disk
          /\ dstOpen = {}
          /\ (Len(cfg.Entries) = 0 => DOMAIN disk = {})
    /\ \A k \in 1..Len(cfg.Entries) : k # li => pathOf(k) \notin dstOpen

\* a successful build of several layers
C3_Witness ==
    /\ pc = "done"
    /\ Len(ret.paths) > 1
    /\ \A k \in 1..Len(ret.paths) : Len(disk[ret.paths[k]]) > 0

\* C4: ShouldIncludeFile is true exactly when the path matches no exclude
\* pattern and the include list is empty or has a pattern the path matches
C4_InclusionDecision ==
    (call.op = "ShouldIncludeFile" /\ call.done) =>
        (call.result <=>
            /\ \A k \in 1..Len(call.excludes) :
                  ~matchesPattern(call.filePath, call.excludes[k])
            /\ \/ Len(call.includes) = 0
               \/ \E k \in 1..Len(call.includes) :
                     matchesPattern(call.filePath, call.includes[k]))

\* excludes ["*.txt"], includes ["f.*"], path "f.txt": excluded
C4_Witness ==
    /\ call.op = "ShouldIncludeFile"
    /\ call.done
    /\ call.filePath = nF
    /\ call.excludes = <<pTxt>>
    /\ call.includes = <<pFdot>>
    /\ ~call.result

\* C5: when the walk of a directory mapping is over, a regular file below
\* the source root has an entry of this mapping exactly when the Inclusion
\* Decision on its relative path says include
C5_DescendantsFollowInclusionDecision ==
    (pc = "walk" /\ walkQ = <<>>) =>
        \A f \in SourceFiles :
            (Len(f) > Len(file.Src) /\ SubSeq(f, 1, Len(file.Src)) = file.Src) =>
                ((\E k \in 1..Len(disk[curTarPath]) :
                      /\ disk[curTarPath][k].src = f
                      /\ disk[curTarPath][k].mapping = fi)
                 <=> ShouldIncludeFile(Rel(file.Src, f), file.Excludes, file.Includes))

\* C6: no archive has an entry whose source is that archive itself
C6_ArchiveNeverContainsItself ==
    \A pk \in Slots : disk[pk[1]][pk[2]].src # pk[1]

Fields == {"FilePermissions", "DirectoryPermissions", "User", "Group", "Timestamp"}

\* the specific value when it is non-empty, the broad one otherwise
Pick(broad, specific, f) ==
    IF specific[f] # EmptyStr THEN specific[f] ELSE broad[f]

\* C7: each field of a merge is the specific value when non-empty and the
\* broad value otherwise; after the two merges a field set only at global
\* scope has the global value and a field set at mapping scope the mapping's
C7_MergeIsFieldwise ==
    call.op = "MergeProperties" =>
        /\ call.stage >= 1 =>
              /\ DOMAIN call.merged1 = Fields
              /\ \A f \in Fields :
                    call.merged1[f] = Pick(call.global, call.layer, f)
        /\ call.stage = 2 =>
              /\ DOMAIN call.merged2 = Fields
              /\ \A f \in Fields :
                    /\ call.merged2[f] = Pick(call.merged1, call.mapping, f)
                    /\ (call.layer[f] = EmptyStr /\ call.mapping[f] = EmptyStr)
                           => call.merged2[f] = call.global[f]
                    /\ call.mapping[f] # EmptyStr
                           => call.merged2[f] = call.mapping[f]

\* the timestamp set only at global scope, the group at every scope
C7_Witness ==
    /\ call.op = "MergeProperties"
    /\ call.stage = 2
    /\ call.global.Timestamp # EmptyStr
    /\ call.layer.Timestamp = EmptyStr
    /\ call.mapping.Timestamp = EmptyStr
    /\ call.merged2.Timestamp = call.global.Timestamp
    /\ call.global.Group # EmptyStr
    /\ call.layer.Group # EmptyStr
    /\ call.mapping.Group # EmptyStr
    /\ call.merged2.Group = call.mapping.Group

\* user and group are empty in the property set r
OwnerUnset(r) == r.User = EmptyStr /\ r.Group = EmptyStr

\* user and group are empty at global, layer and mapping scope of the entry
OwnerUnsetEverywhere(e) ==
    /\ OwnerUnset(cfgIn.Properties)
    /\ OwnerUnset(cfgIn.Entries[e.layer].Properties)
    /\ OwnerUnset(cfgIn.Entries[e.layer].Files[e.mapping].Properties)

\* C8: an entry written for a mapping with user and group unset at every
\* scope has owner id 0 and group id 0
C8_UnsetOwnerGroupDefaultToZero ==
    \A pk \in Slots :
        LET e == disk[pk[1]][pk[2]]
        IN  OwnerUnsetEverywhere(e) => (e.Uid = 0 /\ e.Gid = 0)

\* such an entry, of a source that another user and group own on disk
C8_Witness ==
    \E pk \in Slots :
        LET e == disk[pk[1]][pk[2]]
        IN  /\ OwnerUnsetEverywhere(e)
            /\ e.info.uid # 0
            /\ e.info.gid # 0
            /\ e.Uid = 0
            /\ e.Gid = 0

\* the whole string is a base-10 integer
IsInteger(s) ==
    LET from == IF Len(s) > 0 /\ s[1] \in {"+", "-"} THEN 2 ELSE 1
    IN  from <= Len(s) /\ \A j \in from..Len(s) : s[j] \in Digits

\* C9: the three times of an entry are T milliseconds when the resolved
\* timestamp T is an integer string and the parsed instant when T is an
\* RFC 3339 string; the modification time is that of the source when T is
\* unset or is neither
C9_TimestampForms ==
    \A pk \in Slots :
        LET e == disk[pk[1]][pk[2]]
            T == e.opt.Timestamp
            all(t) == e.ModTime = t /\ e.AccessTime = t /\ e.ChangeTime = t
        IN  /\ IsInteger(T) => all(UnixMilli(SscanfDecimal(T).val))
            /\ (~IsInteger(T) /\ ParseRFC3339(T).ok) => all(ParseRFC3339(T).t)
            /\ (T = EmptyStr \/ (~IsInteger(T) /\ ~ParseRFC3339(T).ok))
                   => e.ModTime = e.info.modTime

\* the whole string is an octal number
IsOctal(s) == Len(s) > 0 /\ \A j \in 1..Len(s) : s[j] \in OctalDigits

\* C10: the mode of an entry is the octal value of the resolved permission
\* string of its kind when that string is an octal number in its entirety,
\* and the default of its kind otherwise
C10_ModeFromPermissionString ==
    \A pk \in Slots :
        LET e == disk[pk[1]][pk[2]]
            perm == IF e.isDir THEN e.opt.DirectoryPermissions
                    ELSE e.opt.FilePermissions
        IN  e.Mode = IF IsOctal(perm) THEN DigitsValue(perm, 1, Len(perm), 8)
                     ELSE IF e.isDir THEN DefaultDirMode ELSE DefaultFileMode

\* C11: an entry whose resolved user (group) string is not a decimal integer
\* has owner id (group id) 0, whoever owns the source on disk
C11_UnparseableOwnerGroupIsZero ==
    \A pk \in Slots :
        LET e == disk[pk[1]][pk[2]]
        IN  /\ ~IsInteger(e.opt.User) => e.Uid = 0
            /\ ~IsInteger(e.opt.Group) => e.Gid = 0

\* the mapping an entry was written for
mappingOf(e) == cfgIn.Entries[e.layer].Files[e.mapping]

\* the last segment of a source path
lastSegment(path) == path[Len(path)]

\* a destination without backslash and without drive prefix
PlainDest(d) == (\A k \in 1..Len(d) : d[k] # "\\") /\ ~(Len(d) > 1 /\ d[2] = ":")

\* the entries mapping k of the layer being built has in its archive
entriesOf(k) ==
    {n \in 1..Len(disk[curTarPath]) : disk[curTarPath][n].mapping = k}

\* the archive of the layer being built is on disk and being filled or complete
Building ==
    /\ pc \in {"mapping", "walk", "copy", "closew", "closef", "done"}
    /\ li >= 1
    /\ curTarPath \in DOMAIN disk

\* C12: an entry of a mapping whose source is a regular file is a file entry
\* named destination + base name when the destination ends with a separator
\* and named as the destination otherwise; a file mapping that has been
\* processed has one entry when the Inclusion Decision on the base name says
\* include and none otherwise, and the build has gone on
C12_FileMappingName ==
    /\ \A pk \in Slots :
          LET e == disk[pk[1]][pk[2]]
              m == mappingOf(e)
          IN  (~Stat(m.Src).isDir /\ PlainDest(m.Dest)) =>
                  /\ e.src = m.Src
                  /\ ~e.isDir
                  /\ e.Name = IF HasSuffixSlash(m.Dest)
                              THEN m.Dest \o lastSegment(m.Src)
                              ELSE m.Dest
    /\ Building =>
          \A k \in 1..Len(layerEntry.Files) :
              LET m == layerEntry.Files[k]
              IN  (k < fi /\ ~Stat(m.Src).isDir) =>
                      Cardinality(entriesOf(k)) =
                          IF ShouldIncludeFile(lastSegment(m.Src), m.Excludes, m.Includes)
                          THEN 1 ELSE 0

\* a finished layer of three file mappings: app/a.txt to "/etc/" with filters
\* that fit the base name only, run.sh excluded, run.sh to "/home/run.sh"
C12_Witness ==
    /\ pc = "done"
    /\ layerEntry.Files = <<mDeep, mSkip, mRun>>
    /\ Len(disk[curTarPath]) = 2
    /\ disk[curTarPath][1].Name = <<"/", "e", "t", "c", "/", "a", ".", "t", "x", "t">>
    /\ disk[curTarPath][2].Name = mRun.Dest
    /\ entriesOf(2) = {}

\* the entry was written for a mapping whose source is a directory
OfDirMapping(e) == Stat(mappingOf(e).Src).isDir

\* the destination without one trailing separator
Bare(d) == IF HasSuffixSlash(d) THEN SubSeq(d, 1, Len(d) - 1) ELSE d

\* the names of the entries of mapping k, in the order they were written
namesOf(k) ==
    LET es == SelectSeq(disk[curTarPath], LAMBDA e : e.mapping = k)
    IN  [n \in 1..Len(es) |-> es[n].Name]

\* C13: an entry of a directory mapping with destination D, written for the
\* descendant with relative path r, is named D/r (D for the source itself);
\* two processed mappings that differ only in a trailing separator of the
\* destination have the same sequence of entry names
C13_DirectoryDestination ==
    /\ \A pk \in Slots :
          LET e == disk[pk[1]][pk[2]]
              m == mappingOf(e)
              r == Rel(m.Src, e.src)
              D == IF HasSuffixSlash(m.Dest) THEN m.Dest ELSE m.Dest \o <<"/">>
          IN  (OfDirMapping(e) /\ PlainDest(m.Dest)) =>
                  e.Name = IF r = <<".">> THEN Bare(D) ELSE D \o r
    /\ Building =>
          \A j, k \in 1..Len(layerEntry.Files) :
              (/\ j < fi /\ k < fi
               /\ OfDirMapping([layer |-> li, mapping |-> j])
               /\ layerEntry.Files[k] =
                      [layerEntry.Files[j] EXCEPT !.Dest = @ \o <<"/">>])
                  => namesOf(j) = namesOf(k)

\* C14: an entry name has no backslash and no ':' as its second character,
\* the rewriting leaves it as it is, and the destination c:\app\x of a file
\* mapping gives the name /C/app/x
C14_NamesInArchiveForm ==
    \A pk \in Slots :
        LET e == disk[pk[1]][pk[2]]
        IN  /\ \A k \in 1..Len(e.Name) : e.Name[k] # "\\"
            /\ ~(Len(e.Name) > 1 /\ e.Name[2] = ":")
            /\ toTarPath(e.Name) = e.Name
            /\ mappingOf(e) = mWin => e.Name = <<"/", "C", "/", "a", "p", "p", "/", "x">>

Matched == call.op = "matchesPattern" /\ call.done

\* separators normalized to '/'
Slashed(s) == [k \in 1..Len(s) |-> IF s[k] = "\\" THEN "/" ELSE s[k]]

\* number of occurrences of the character c in s
Count(s, c) == Cardinality({k \in 1..Len(s) : s[k] = c})

\* s ends with the string t
EndsWith(s, t) ==
    Len(s) >= Len(t) /\ SubSeq(s, Len(s) - Len(t) + 1, Len(s)) = t

\* C16: a pattern whose only wildcard is one `*` matches only candidates with
\* as many separators as the pattern has; "ab" and "test.txt" match "a*" and
\* "*.txt", "a/b" does not match "a*"
C16_StarStaysInSegment ==
    Matched =>
        /\ (Count(call.pattern, "*") = 1 /\ Count(call.pattern, "?") = 0 /\ call.result)
               => Count(Slashed(call.filePath), "/") = Count(Slashed(call.pattern), "/")
        /\ (call.pattern = pAStar /\ call.filePath = <<"a", "b">>) => call.result
        /\ (call.pattern = pAStar /\ call.filePath = <<"a", "/", "b">>) => ~call.result
        /\ (call.pattern = pTxt /\ call.filePath = nTest) => call.result

\* C17: "**/*.txt" matches exactly the candidates that have a separator and
\* end with ".txt" (a .txt file below one or more directories), and
\* "test.?xt" exactly the candidates "test." + one character + "xt"
C17_DoubleStarAndQuestionMark ==
    Matched =>
        /\ call.pattern = pDeepTxt =>
               (call.result <=>
                    /\ Count(Slashed(call.filePath), "/") > 0
                    /\ EndsWith(call.filePath, <<".", "t", "x", "t">>))
        /\ call.pattern = pTestQ =>
               (call.result <=>
                    /\ Len(call.filePath) = Len(nTest)
                    /\ SubSeq(call.filePath, 1, 5) = SubSeq(nTest, 1, 5)
                    /\ SubSeq(call.filePath, 7, 8) = SubSeq(nTest, 7, 8))

\* C18: a pattern without `*` and `?` matches a candidate exactly when the
\* two are the same string once separators are normalized
C18_LiteralsMatchThemselvesOnly ==
    (Matched /\ Count(call.pattern, "*") = 0 /\ Count(call.pattern, "?") = 0) =>
        (call.result <=> Slashed(call.filePath) = Slashed(call.pattern))

\* C19: the result for a candidate and a pattern is the result for the two
\* with every backslash replaced by '/'
C19_SeparatorStyleIrrelevant ==
    Matched =>
        call.result = matchesPattern(Slashed(call.filePath), Slashed(call.pattern))

\* a call of ParseCreationTime has returned
Parsed == call.op = "ParseCreationTime" /\ call.done

\* C20: for a string that is in its entirety a base-10 integer n (of at most
\* nine digits here, and 1700000000000) ParseCreationTime returns the instant
\* n milliseconds after the epoch and no error; "2020-01-01", which only
\* begins with digits, gives the first of January 2020 and not 2020 ms
C20_WholeStringInteger ==
    Parsed =>
        /\ (IsInteger(call.str) /\ Len(call.str) <= 9) =>
               /\ ~call.err
               /\ call.t = UnixMilli(SscanfDecimal(call.str).val)
        /\ call.str = <<"1", "7", "0", "0", "0", "0", "0", "0", "0", "0", "0", "0", "0">> =>
               /\ ~call.err
               /\ call.t = [s |-> 1700000000, ms |-> 0]
        /\ call.str = tsDate =>
               /\ ~call.err
               /\ call.t = [s |-> 1577836800, ms |-> 0]

\* some layout of lines 84-99 parses the string
SomeLayoutParses(s) == \E k \in 1..Len(Layouts(s)) : Layouts(s)[k].ok

\* the result of the first layout that parses the string
FirstLayout(s) ==
    Layouts(s)[CHOOSE k \in 1..Len(Layouts(s)) :
                   /\ Layouts(s)[k].ok
                   /\ \A j \in 1..(k - 1) : ~Layouts(s)[j].ok].t

\* C21: ParseCreationTime returns an error exactly when the string is neither
\* in its entirety a base-10 integer nor parsed by one of the layouts; with an
\* error the returned time is the current time; without an error a string
\* that is no integer gives the instant of the first layout that parses it
C21_ErrorIffNothingParses ==
    Parsed =>
        /\ call.err <=> (~IsInteger(call.str) /\ ~SomeLayoutParses(call.str))
        /\ call.err => call.t = call.now
        /\ (~call.err /\ ~IsInteger(call.str)) => call.t = FirstLayout(call.str)

\* CreateTar over the whole of srcDir and ExtractTar have both returned nil
RoundTripDone ==
    /\ call.op = "CreateTar"
    /\ call.at = "done"
    /\ call.opt.Files \in {<<>>, << <<>> >>}

\* C22: after CreateTar over a directory tree and ExtractTar into an empty
\* directory, the output holds exactly the relative names of the files of the
\* tree, each with the bytes of its file, and, when a file permission is
\* configured (an octal string, permissions not preserved), each with the mode
\* that string spells and not the mode the file has on disk
C22_RoundTrip ==
    RoundTripDone =>
        /\ DOMAIN call.out = {JoinSegs(p) : p \in DOMAIN call.tree}
        /\ \A p \in DOMAIN call.tree :
              call.out[JoinSegs(p)].content = call.tree[p].content
        /\ (~call.opt.PreservePermissions /\ IsOctal(call.opt.FilePermissions)) =>
              \A p \in DOMAIN call.tree :
                  call.out[JoinSegs(p)].mode =
                      DigitsValue(call.opt.FilePermissions, 1,
                                  Len(call.opt.FilePermissions), 8)

\* the value of key in the environment: that of the last entry that sets it
envValue(environ, key) ==
    LET hits == {i \in 1..Len(environ) :
                    /\ IndexOf(environ[i], "=", 1) = Len(key) + 1
                    /\ SubSeq(environ[i], 1, Len(key)) = key}
        last == CHOOSE i \in hits : \A j \in hits : j <= i
    IN  [set |-> hits # {},
         val |-> IF hits = {} THEN EmptyStr
                 ELSE SubSeq(environ[last], Len(key) + 2, Len(environ[last]))]

\* the indexes of the variable files that are read and parsed and define key
filesWith(valFiles, key) ==
    {i \in 1..Len(valFiles) :
        valFiles[i].kind = "vars" /\ key \in DOMAIN valFiles[i].vars}

\* the value the documented precedence gives key: the command line, else the
\* last variable file that defines it, else the built-in value of
\* TimestampTag, else the environment
byPrecedence(c, key) ==
    LET fs   == filesWith(c.valFiles, key)
        last == CHOOSE i \in fs : \A j \in fs : j <= i
    IN  IF key \in DOMAIN c.vals THEN [set |-> TRUE, val |-> c.vals[key]]
        ELSE IF fs # {} THEN [set |-> TRUE, val |-> c.valFiles[last].vars[key]]
        ELSE IF key = kTag THEN [set |-> TRUE, val |-> defaultTimestamp(c.now)]
        ELSE envValue(c.environ, key)

\* C23: the pool BuildVarPool returns is not nil, holds TimestampTag, and
\* holds for every key the value of the highest level that defines it
\* (environment < built-in TimestampTag < variable files in their order <
\* command line) and no key that no level defines; the step for a variable
\* file that cannot be read or parsed leaves the pool as it is
C23_VarPoolPrecedence ==
    /\ []((call.op = "BuildVarPool" /\ call.at = "done") =>
             /\ ~call.isNil
             /\ kTag \in DOMAIN call.pool
             /\ \A key \in {kTag, kApp, kVer, <<"x">>, EmptyStr} :
                   /\ key \in DOMAIN call.pool <=> byPrecedence(call, key).set
                   /\ key \in DOMAIN call.pool =>
                          call.pool[key] = byPrecedence(call, key).val
             /\ DOMAIN call.pool \subseteq {kTag, kApp, kVer})
    /\ [][(/\ call.op = "BuildVarPool"
           /\ call.at = "files"
           /\ call.k <= Len(call.valFiles)
           /\ call.valFiles[call.k].kind # "vars") => call'.pool = call.pool]_vars

\* APP is set by the environment (twice), by the first file and on the
\* command line, VER only by the environment, the second file is unreadable
C23_Witness ==
    /\ call.op = "BuildVarPool"
    /\ call.at = "done"
    /\ Len(call.environ) = 3
    /\ envValue(call.environ, kApp).set
    /\ Len(call.valFiles) = 2
    /\ call.valFiles[1].kind = "vars"
    /\ call.valFiles[2].kind = "unreadable"
    /\ kApp \in DOMAIN call.vals
    /\ call.pool[kApp] = <<"c">>
    /\ call.pool[kVer] = <<"e", "=", "1">>

\* the path a comes before the path b in a depth-first walk that visits a
\* directory before its contents and siblings in the order of their names
PathLess(a, b) ==
    \E k \in 1..Len(b) :
        /\ \A j \in 1..(k - 1) : j <= Len(a) /\ a[j] = b[j]
        /\ (k > Len(a) \/ StrLess(a[k], b[k]))

\* what the walk of mapping m takes: the paths at or below its source that
\* pass the filters together with every directory between them and the source
walked(m) ==
    {q \in SourceDirs \cup SourceFiles \cup DOMAIN disk :
        /\ Len(q) >= Len(m.Src)
        /\ SubSeq(q, 1, Len(m.Src)) = m.Src
        /\ \A n \in Len(m.Src)..Len(q) :
              ShouldIncludeFile(Rel(m.Src, SubSeq(q, 1, n)), m.Excludes, m.Includes)}

\* the sources of the entries of mapping k, in the order they were written
sourcesOf(k) ==
    LET es == SelectSeq(disk[curTarPath], LAMBDA e : e.mapping = k)
    IN  [n \in 1..Len(es) |-> es[n].src]

\* C24: in every archive each entry is followed by one of the same or of a
\* later mapping, and the entries of one mapping are in depth-first order,
\* siblings by name and a directory before its contents; each processed
\* directory mapping has written one entry for every path its own walk takes,
\* whatever earlier mappings wrote, so that of two mappings that resolve to
\* the same name both have their entry, the later mapping's later
C24_EntryOrder ==
    /\ \A p \in DOMAIN disk :
          \A i \in 1..(Len(disk[p]) - 1) :
              LET e == disk[p][i]
                  n == disk[p][i + 1]
              IN  /\ e.mapping <= n.mapping
                  /\ e.mapping = n.mapping => PathLess(e.src, n.src)
    /\ Building =>
          \A k \in 1..Len(layerEntry.Files) :
              (k < fi /\ Stat(layerEntry.Files[k].Src).isDir) =>
                  LET written == sourcesOf(k)
                      taken   == walked(layerEntry.Files[k])
                  IN  /\ {written[n] : n \in 1..Len(written)} = taken
                      /\ Len(written) = Cardinality(taken)

\* the directory app mapped twice to /opt in one layer: twelve entries, the
\* six names of the first mapping followed by the same six names
C24_Witness ==
    /\ pc = "done"
    /\ Len(cfg.Entries) > 0
    /\ layerEntry.Files = <<mAllBare, mAll>>
    /\ Len(disk[curTarPath]) = 12
    /\ namesOf(1) = namesOf(2)
    /\ sourcesOf(2) = << <<nApp>>, <<nApp, nA>>, <<nApp, nB>>, <<nApp, nSub>>,
                         <<nApp, nSub, nC>>, <<nApp, nSub, nD>> >>
    /\ disk[curTarPath][6].mapping = 1
    /\ disk[curTarPath][7].mapping = 2
    /\ disk[curTarPath][7].Name = disk[curTarPath][1].Name

\* C25: at any moment at most one archive and at most one source file are
\* open, the open archive being that of the current layer and a source being
\* open only while its content is copied; when an archive is created no file
\* is open and the archives of all earlier layers are closed and recorded;
\* and when ProcessLayers has returned, with or without error, no file is open
C25_OpenFiles ==
    /\ Cardinality(dstOpen) <= 1
    /\ Cardinality(srcOpen) <= 1
    /\ dstOpen \subseteq {pathOf(k) : k \in {li} \cap (1..Len(cfg.Entries))}
    /\ srcOpen # {} => pc = "copy" /\ dstOpen # {}
    /\ pc = "create" =>
          /\ dstOpen = {}
          /\ srcOpen = {}
          /\ Len(layerPaths) = li - 1
    /\ pc \in {"done", "failed"} =>
          /\ ret.returned
          /\ dstOpen = {}
          /\ srcOpen = {}

\* the copy of a source file failed in the second layer, after the first
\* layer's archive had been written and closed
C25_Witness ==
    /\ pc = "failed"
    /\ li = 2
    /\ fi <= Len(layerEntry.Files)
    /\ ~Stat(file.Src).isDir
    /\ ret.err = "failed to add file"
    /\ Len(layerPaths) = 1
    /\ Len(disk[pathOf(1)]) > 0

\* the global properties as the build uses them: user and group "0" when unset
globalOf(c) ==
    [c.Properties EXCEPT !.User  = IF @ = EmptyStr THEN <<"0">> ELSE @,
                         !.Group = IF @ = EmptyStr THEN <<"0">> ELSE @]

\* the value of field f for mapping k of layer l: the mapping's own when it
\* is set, else the layer's own when it is set, else the global one
scoped(l, k, f) ==
    Pick([g \in Fields |-> Pick(globalOf(cfgIn), cfgIn.Entries[l].Properties, g)],
         cfgIn.Entries[l].Files[k].Properties, f)

\* C27: the options of every entry are, field by field, those of its own
\* mapping, its own layer and the global scope, most specific first; nothing
\* of another mapping or another layer is in them
C27_PropertiesAreScoped ==
    \A pk \in Slots :
        LET e == disk[pk[1]][pk[2]]
        IN  /\ pk[1] = pathOf(e.layer)
            /\ \A f \in Fields : e.opt[f] = scoped(e.layer, e.mapping, f)

\* a build of two layers or more: in one the first mapping sets a directory
\* mode and a timestamp of its own and the second mapping, of the same
\* names, has the global ones; another layer sets the four fields itself
C27_Witness ==
    /\ pc = "done"
    /\ \E l1, l2 \in 1..Len(cfgIn.Entries) :
          /\ cfgIn.Entries[l1].Files = <<mAllBare, mAll>>
          /\ cfgIn.Entries[l2].Properties = PropsLoose
          /\ Len(disk[pathOf(l2)]) > 0
          /\ Len(disk[pathOf(l1)]) = 12
          /\ disk[pathOf(l1)][1].opt.DirectoryPermissions = PropsZone.DirectoryPermissions
          /\ disk[pathOf(l1)][1].opt.Timestamp = PropsZone.Timestamp
          /\ disk[pathOf(l1)][7].opt.DirectoryPermissions
                 = cfgIn.Properties.DirectoryPermissions
          /\ disk[pathOf(l1)][7].opt.Timestamp = cfgIn.Properties.Timestamp
          /\ disk[pathOf(l2)][1].opt.User = PropsLoose.User

\* a property string that is set and is not of the form its field asks for
Malformed(opt, f) ==
    /\ opt[f] # EmptyStr
    /\ CASE f \in {"FilePermissions", "DirectoryPermissions"} -> ~IsOctal(opt[f])
         [] f \in {"User", "Group"} -> ~IsInteger(opt[f])
         [] OTHER -> ~IsInteger(opt[f]) /\ ~ParseRFC3339(opt[f]).ok

\* the options with a well-formed value in the place of every malformed one
wellFormed(opt) ==
    [f \in DOMAIN opt |->
        IF f \in Fields /\ Malformed(opt, f) THEN PropsTest[f] ELSE opt[f]]

\* C26: whatever the property strings are, at an existing source that passes
\* the filters the archive writer accepts the header of its entry (the
\* properties do not make the build fail there), and in every entry written
\* each header field whose
\* own property is not malformed is what it is when the malformed properties
\* are replaced by well-formed ones
C26_MalformedPropertiesDegrade ==
    /\ (/\ pc = "mapping"
        /\ fi <= Len(layerEntry.Files)
        /\ Exists(file.Src, disk)
        /\ ~Stat(file.Src).isDir
        /\ ShouldIncludeFile(Base(file.Src), file.Excludes, file.Includes))
           => WriteHeaderOk(Stat(file.Src), tarOptions(layerEntry, file))
    /\ (/\ pc = "walk"
        /\ walkQ # <<>>
        /\ ShouldIncludeFile(Rel(file.Src, Head(walkQ)), file.Excludes, file.Includes))
           => WriteHeaderOk(Stat(Head(walkQ)), tarOptions(layerEntry, file))
    /\ \A pk \in Slots :
          LET e    == disk[pk[1]][pk[2]]
              ref  == Header(e.src, e.Name, e.info, wellFormed(e.opt))
              perm == IF e.isDir THEN "DirectoryPermissions" ELSE "FilePermissions"
          IN  /\ e.Name = ref.Name
              /\ ~Malformed(e.opt, perm) => e.Mode = ref.Mode
              /\ ~Malformed(e.opt, "User") => e.Uid = ref.Uid
              /\ ~Malformed(e.opt, "Group") => e.Gid = ref.Gid
              /\ ~Malformed(e.opt, "Timestamp") =>
                     /\ e.ModTime = ref.ModTime
                     /\ e.AccessTime = ref.AccessTime
                     /\ e.ChangeTime = ref.ChangeTime

\* C28: a pattern **/p matches no candidate without a separator ("**/*.txt"
\* does not match "a.txt", which "*.txt" matches, while "*.txt" matches
\* nothing below a directory); and "a?b" matches "a/b", which "a*b" does not
C28_DeepPatternNeedsSeparator ==
    Matched =>
        /\ (Len(call.pattern) >= 3 /\ SubSeq(call.pattern, 1, 3) = <<"*", "*", "/">>) =>
               (call.result => Count(Slashed(call.filePath), "/") > 0)
        /\ (call.pattern = pDeepTxt /\ call.filePath = nA) => ~call.result
        /\ (call.pattern = pTxt /\ call.filePath = nA) => call.result
        /\ call.pattern = pTxt =>
               (call.result => Count(Slashed(call.filePath), "/") = 0)
        /\ (call.pattern = pAQB /\ call.filePath = <<"a", "/", "b">>) => call.result
        /\ (call.pattern = pAStarB /\ call.filePath = <<"a", "/", "b">>) => ~call.result

\* C29: the Created field of every image is the time ParseCreationTime
\* yields for the configured creation time; it is a current time when no
\* creation time is configured or the configured one does not parse, and in
\* that case too the images of all platforms are built
C29_CreatedIsCreationTime ==
    call.op = "create" =>
        LET r == ParseCreationTime(call.creationTime, call.later)
            parsed == call.creationTime # EmptyStr /\ ~r.err
        IN  /\ \A k \in 1..Len(call.created) :
                  /\ parsed => call.created[k] = r.t
                  /\ ~parsed => call.created[k] \in {call.now, call.later}
            /\ call.at = "built" => Len(call.created) = call.platforms

\* the integer of a timestamp string times 1000000, in 96 bits, where the
\* product of a 64-bit integer and 1000000 always fits
exactNanos(s) ==
    LET ms == ScanDecimal(s)
    IN  MulMillion(IntOf(ms.neg, ms.digits, 6))

\* C30: the nanoseconds of the instant are the integer of the string times
\* 1000000 (nothing is lost to the width of 64 bits), and of two strings the
\* one with the smaller integer gives the earlier instant
C30_MillisExactAndOrdered ==
    (call.op = "UnixMilli" /\ call.done) =>
        /\ SignExtend(call.ta, 6) = exactNanos(call.a)
        /\ SignExtend(call.tb, 6) = exactNanos(call.b)
        /\ LessInt(IntOf(ScanDecimal(call.a).neg, ScanDecimal(call.a).digits, 4),
                   IntOf(ScanDecimal(call.b).neg, ScanDecimal(call.b).digits, 4))
               => LessInt(call.ta, call.tb)

====
